---- MODULE Spec2Model ----
(***************************************************************************)
(* Model of tests/mcp_task_lifecycle_e2e.py: the McpClient transport       *)
(* (process supervisor, stderr drain, send / recv / call / close) and the  *)
(* lifecycle harness main() built on it.                                   *)
(*                                                                         *)
(* SpecTransport drives McpClient with a subject process that writes any   *)
(* bytes to stdout, and models recv step by step.  SpecBoot drives it with *)
(* a subject that writes to stderr, for the constructor and the stderr     *)
(* thread.  SpecMain runs main(): construction, the 19 tests, the finally  *)
(* block and the summary, with each transport call taken as one step whose *)
(* outcome is one of those recv / send can have.                           *)
(***************************************************************************)
EXTENDS Integers, Sequences, FiniteSets, TLC

\* ---------------------------------------------------------------- constants
TIMEOUT == 30          \* seconds, recv deadline
SelectSlice == 1       \* seconds, select() timeout in recv
BootProbes == 20       \* range(20) in __init__
BootTail == 20         \* _stderr_lines[-20:]
RecvTail == 10         \* _stderr_lines[-10:]

\* ------------------------------------------------------------------- bounds
MaxWrites == 2         \* chunks the subject writes to stdout in one run
MaxErrLines == 21      \* lines the subject writes to stderr in one run
MaxCalls == 2          \* McpClient.call invocations of the transport driver

NoId == -1             \* id_=None
ExitCodes == {0, 1}        \* return codes the subject exits with
FrameIds == {NoId, 1, 2}   \* ids the subject puts in the frames it writes

\* ------------------------------------------------------- bytes on stdout
\* A byte string is a sequence of symbols:
\*   J  a complete JSON document (carrying "id": id, or no id when id = NoId)
\*   X  valid UTF-8 text that is not a JSON document
\*   U  bytes that are not valid UTF-8
\*   W  whitespace other than newline
\*   N  the newline byte
Sym(t, i) == [t |-> t, id |-> i]
NL == Sym("N", NoId)
\* What one write of the subject may put on stdout: a frame, a malformed line,
\* a line that is not UTF-8, a blank line, or a document without its newline.
Chunks ==
    {<<Sym("J", i), NL>> : i \in FrameIds} \cup
    {<<Sym("X", NoId), NL>>, <<Sym("U", NoId), NL>>, <<Sym("W", NoId), NL>>,
     <<Sym("J", 1)>>}

VARIABLES
    \* subject process and its pipes
    proc,          \* "none" | "alive" | "exited"
    exitCode,      \* return code once exited
    stdoutOpen,    \* write end of the stdout pipe still open
    stderrOpen,    \* write end of the stderr pipe still open
    outPipe,       \* bytes written to stdout, not yet read
    errPipe,       \* lines written to stderr, not yet read
    writes,        \* chunks written to stdout so far
    errWritten,    \* lines written to stderr so far
    stdinClosed,   \* proc.stdin.close() was called
    \* McpClient
    cpc,           \* position of the thread using the client
    drain,         \* stderr thread: "unstarted" | "running" | "done"
    stderrLines,   \* self._stderr_lines
    probes,        \* liveness probes made by __init__
    probesAlive,   \* probes that saw the subject alive
    raised,        \* exception raised by the last operation, "" if none
    errTail,       \* stderr tail attached to the raised exception
    sent,          \* frames written to the subject's stdin, in order
    pendingId,     \* id_ of the call in progress
    buf,           \* recv: local buffer
    elapsed,       \* recv: whole seconds since recv started
    recvResult,    \* frame returned by the last recv
    stdoutRead,    \* os.read was called on the subject's stdout
    calls,         \* call invocations so far
    idCounter,     \* ids handed out
    closeTrace,    \* steps performed by close, in order
    \* main()
    mpc,           \* position of main
    PASS,
    FAIL,
    exitStatus,    \* process exit status, -1 while running
    tmpdir,        \* "none" | "exists" | "removed"
    taskId,        \* task_id: "" or the id start_task returned
    task2Id,       \* task2_id
    pollI,         \* polls made by Test 13
    completed,     \* Test 13: process_alive = false was observed
    excPending,    \* exception propagating out of the try block, "" if none
    summary,       \* the Results line was printed
    lastTest,      \* number of the last test that ran
    failedCall,    \* number of the test whose transport call raised, 0 if none
    seen,          \* main's locals alive / status / success when a verdict reads them
    noDetail,      \* log_fail calls of the last test step whose detail was empty
    recorded,      \* calls of log_pass and log_fail so far
    total,         \* the total the Results line printed, -1 before
    \* one response taken through tool_call and a test's checks
    envelope,      \* resp, the frame call returned
    toolOut,       \* what tool_call returned or raised
    verdict,       \* what the test's checks recorded, or the exception they let through
    \* the subject's tasks as the status polls see them
    tasks,         \* task id -> its state and whether its process is alive
    polls,         \* task id -> the process_alive values its status polls returned
    \* generate_test_output
    line_count,    \* the argument of the call, NoArg when it is left out
    lines,         \* what the call returned or raised
    \* McpClient.send, byte by byte
    stdinStream,   \* proc.stdin: its buffer and what reached the subject's pipe
    \* the other scripts
    tester,        \* IntelligentRoutingTester
    validator,     \* TestValidator and the exit status of validate_tests.py
    runner         \* E2ETestRunner and the MCP config file

transportVars == <<proc, exitCode, stdoutOpen, stderrOpen, outPipe, errPipe, writes,
                   errWritten, stdinClosed, cpc, drain, stderrLines, probes, probesAlive,
                   raised, errTail, sent, pendingId, buf, elapsed, recvResult,
                   stdoutRead, calls, idCounter, closeTrace>>
stepVars == <<envelope, toolOut, verdict>>
mainLocals == <<mpc, PASS, FAIL, exitStatus, tmpdir, taskId, task2Id, pollI, completed,
                excPending, summary, lastTest, failedCall, seen, noDetail, recorded,
                total>>
taskVars == <<tasks, polls>>
genVars == <<line_count, lines>>
otherVars == <<stdinStream, tester, validator, runner>>
mainVars == <<mainLocals, stepVars, taskVars, genVars, otherVars>>
vars == <<transportVars, mainVars>>

subjectVars == <<proc, exitCode, stdoutOpen, stderrOpen, outPipe, errPipe, writes, errWritten>>
recvVars == <<buf, elapsed, recvResult, stdoutRead, pendingId>>

\* ------------------------------------------------------------------ helpers
\* s[-n:]
LastN(s, n) == IF Len(s) <= n THEN s ELSE SubSeq(s, Len(s) - n + 1, Len(s))

NoFrame == [kind |-> "none", id |-> NoId]
\* alive, status and success hold nothing that is read later
NoSeen == [alive |-> "", status |-> "", success |-> ""]
\* no response is being taken through tool_call
NoEnvelope == [top |-> "none"]
NoOut == [exc |-> "", ret |-> "pending", shape |-> ""]
NoVerdict == [test |-> 0, v |-> "none"]
\* no task is followed
NoTasks == tasks = <<>> /\ polls = <<>>
\* generate_test_output is not called
NotGenerating == line_count = 0 /\ lines = <<>>
\* send is not followed byte by byte and the other scripts do not run
OthersIdle == stdinStream = <<>> /\ tester = <<>> /\ validator = <<>> /\ runner = <<>>
InitSide == NoTasks /\ NotGenerating /\ OthersIdle

\* ------------------------------------------------------------ recv's parser
IndexOfNL(b) == CHOOSE i \in 1..Len(b) : b[i].t = "N" /\ \A j \in 1..(i - 1) : b[j].t # "N"
HasNL(b) == \E i \in 1..Len(b) : b[i].t = "N"

\* bytes.strip(): leading and trailing whitespace removed
RECURSIVE StripLeft(_)
StripLeft(l) == IF l # <<>> /\ Head(l).t = "W" THEN StripLeft(Tail(l)) ELSE l
RECURSIVE StripRight(_)
StripRight(l) ==
    IF l # <<>> /\ l[Len(l)].t = "W" THEN StripRight(SubSeq(l, 1, Len(l) - 1)) ELSE l
Strip(l) == StripRight(StripLeft(l))

\* line.decode(): strict UTF-8
DecodeFails(l) == \E i \in 1..Len(l) : l[i].t = "U"
\* json.loads(text) succeeds on exactly one document, surrounding whitespace allowed
IsJson(l) == Len(l) = 1 /\ l[1].t = "J"

\* The loop `while b"\n" in buf` of recv: the outcome of scanning buf.
\*   kind "frame": json.loads returned (the rest of buf is dropped with the local)
\*   kind "UnicodeDecodeError": line.decode() raised, which recv does not catch
\*   kind "none": no newline left, rest stays in buf
RECURSIVE ScanLines(_)
ScanLines(b) ==
    IF ~HasNL(b) THEN [kind |-> "none", id |-> NoId, rest |-> b]
    ELSE LET i == IndexOfNL(b)
             line == Strip(SubSeq(b, 1, i - 1))
             rest == SubSeq(b, i + 1, Len(b))
         IN  IF line = <<>> THEN ScanLines(rest)
             ELSE IF DecodeFails(line)
                  THEN [kind |-> "UnicodeDecodeError", id |-> NoId, rest |-> rest]
             ELSE IF IsJson(line)
                  THEN [kind |-> "frame", id |-> line[1].id, rest |-> rest]
             ELSE ScanLines(rest)

\* ---------------------------------------------------------- subject process
\* The subject is a black box: while alive it may write any chunk to stdout,
\* a line to stderr, close its stdout, or exit (the exit closes its pipe ends).
SubjectWrite(chunk) ==
    /\ proc = "alive" /\ stdoutOpen /\ writes < MaxWrites
    /\ outPipe' = outPipe \o chunk
    /\ writes' = writes + 1
    /\ UNCHANGED <<proc, exitCode, stdoutOpen, stderrOpen, errPipe, errWritten>>
    /\ UNCHANGED <<stdinClosed, cpc, drain, stderrLines, probes, probesAlive, raised, errTail,
                   sent, recvVars, calls, idCounter, closeTrace, mainVars>>

SubjectWriteErr ==
    /\ proc = "alive" /\ stderrOpen /\ errWritten < MaxErrLines
    /\ errPipe' = Append(errPipe, errWritten + 1)
    /\ errWritten' = errWritten + 1
    /\ UNCHANGED <<proc, exitCode, stdoutOpen, stderrOpen, outPipe, writes>>
    /\ UNCHANGED <<stdinClosed, cpc, drain, stderrLines, probes, probesAlive, raised, errTail,
                   sent, recvVars, calls, idCounter, closeTrace, mainVars>>

SubjectCloseStdout ==
    /\ proc = "alive" /\ stdoutOpen
    /\ stdoutOpen' = FALSE
    /\ UNCHANGED <<proc, exitCode, stderrOpen, outPipe, errPipe, writes, errWritten>>
    /\ UNCHANGED <<stdinClosed, cpc, drain, stderrLines, probes, probesAlive, raised, errTail,
                   sent, recvVars, calls, idCounter, closeTrace, mainVars>>

SubjectExit(code) ==
    /\ proc = "alive"
    /\ proc' = "exited"
    /\ exitCode' = code
    /\ stdoutOpen' = FALSE
    /\ stderrOpen' = FALSE
    /\ UNCHANGED <<outPipe, errPipe, writes, errWritten>>
    /\ UNCHANGED <<stdinClosed, cpc, drain, stderrLines, probes, probesAlive, raised, errTail,
                   sent, recvVars, calls, idCounter, closeTrace, mainVars>>

\* ------------------------------------------------------------ stderr drain
\* for line in self.proc.stderr: self._stderr_lines.append(...)
DrainLine ==
    /\ drain = "running" /\ errPipe # <<>>
    /\ stderrLines' = Append(stderrLines, Head(errPipe))
    /\ errPipe' = Tail(errPipe)
    /\ UNCHANGED <<proc, exitCode, stdoutOpen, stderrOpen, outPipe, writes, errWritten>>
    /\ UNCHANGED <<stdinClosed, cpc, drain, probes, probesAlive, raised, errTail,
                   sent, recvVars, calls, idCounter, closeTrace, mainVars>>

\* DrainEof that goes on waiting for a line at the end of the stream
DrainEofKeepsReading ==
    /\ drain = "running" /\ errPipe = <<>> /\ ~stderrOpen /\ proc # "none"
    /\ drain' = "running"
    /\ UNCHANGED subjectVars
    /\ UNCHANGED <<stdinClosed, cpc, stderrLines, probes, probesAlive, raised, errTail,
                   sent, recvVars, calls, idCounter, closeTrace, mainVars>>

\* end of stream: the loop ends and the thread returns
DrainEof ==
    /\ drain = "running" /\ errPipe = <<>> /\ ~stderrOpen /\ proc # "none"
    /\ drain' = "done"
    /\ UNCHANGED subjectVars
    /\ UNCHANGED <<stdinClosed, cpc, stderrLines, probes, probesAlive, raised, errTail,
                   sent, recvVars, calls, idCounter, closeTrace, mainVars>>

\* ------------------------------------------------------- McpClient.__init__
Popen ==
    /\ cpc = "new"
    /\ proc' = "alive" /\ stdoutOpen' = TRUE /\ stderrOpen' = TRUE
    /\ stderrLines' = <<>>
    /\ cpc' = "spawned"
    /\ UNCHANGED <<exitCode, outPipe, errPipe, writes, errWritten>>
    /\ UNCHANGED <<stdinClosed, drain, probes, probesAlive, raised, errTail,
                   sent, recvVars, calls, idCounter, closeTrace, mainVars>>

\* StartDrain with the thread created but never started
StartDrainNotStarted ==
    /\ cpc = "spawned"
    /\ cpc' = "boot"
    /\ UNCHANGED subjectVars
    /\ UNCHANGED <<stdinClosed, drain, stderrLines, probes, probesAlive, raised, errTail,
                   sent, recvVars, calls, idCounter, closeTrace, mainVars>>

\* self._stderr_lines = []; Thread(target=self._drain_stderr).start()
StartDrain ==
    /\ cpc = "spawned"
    /\ drain' = "running"
    /\ cpc' = "boot"
    /\ UNCHANGED subjectVars
    /\ UNCHANGED <<stdinClosed, stderrLines, probes, probesAlive, raised, errTail,
                   sent, recvVars, calls, idCounter, closeTrace, mainVars>>

\* Probe with the result of poll() ignored
ProbeIgnoresExit ==
    /\ cpc = "boot" /\ probes < BootProbes
    /\ probes' = probes + 1
    /\ probesAlive' = IF proc = "exited" THEN probesAlive ELSE probesAlive + 1
    /\ cpc' = IF probes + 1 = BootProbes THEN "ready" ELSE "boot"
    /\ UNCHANGED subjectVars
    /\ UNCHANGED <<stdinClosed, drain, stderrLines, raised, errTail,
                   sent, recvVars, calls, idCounter, closeTrace, mainVars>>

\* one pass of `for _ in range(20)`: sleep(1), poll()
Probe ==
    /\ cpc = "boot" /\ probes < BootProbes
    /\ probes' = probes + 1
    /\ IF proc = "exited"
       THEN /\ cpc' = "boot_exited"
            /\ UNCHANGED probesAlive
       ELSE /\ probesAlive' = probesAlive + 1
            /\ cpc' = IF probes + 1 = BootProbes THEN "ready" ELSE "boot"
    /\ UNCHANGED subjectVars
    /\ UNCHANGED <<stdinClosed, drain, stderrLines, raised, errTail,
                   sent, recvVars, calls, idCounter, closeTrace, mainVars>>

\* BootRaise that takes the lines out of the buffer it reports
BootRaiseClearsBuffer ==
    /\ cpc = "boot_exited"
    /\ errTail' = LastN(stderrLines, BootTail)
    /\ stderrLines' = <<>>
    /\ raised' = "RuntimeError"
    /\ cpc' = "bootfail"
    /\ UNCHANGED subjectVars
    /\ UNCHANGED <<stdinClosed, drain, probes, probesAlive,
                   sent, recvVars, calls, idCounter, closeTrace, mainVars>>

\* sleep(0.5); stderr_tail = _stderr_lines[-20:]; raise RuntimeError
BootRaise ==
    /\ cpc = "boot_exited"
    /\ errTail' = LastN(stderrLines, BootTail)
    /\ raised' = "RuntimeError"
    /\ cpc' = "bootfail"
    /\ UNCHANGED subjectVars
    /\ UNCHANGED <<stdinClosed, drain, stderrLines, probes, probesAlive,
                   sent, recvVars, calls, idCounter, closeTrace, mainVars>>

\* ------------------------------------------------------ send / call / recv
\* Call with `if id_:` in place of `if id_ is not None:` before recv
CallTruthyId(id) ==
    /\ cpc = "ready" /\ calls < MaxCalls
    /\ calls' = calls + 1
    /\ idCounter' = IF id = NoId THEN idCounter ELSE idCounter + 1
    /\ recvResult' = NoFrame
    /\ errTail' = <<>>
    /\ buf' = <<>>
    /\ elapsed' = 0
    /\ IF proc = "exited"
       THEN /\ raised' = "BrokenPipeError"
            /\ UNCHANGED <<sent, cpc, pendingId>>
       ELSE /\ raised' = ""
            /\ sent' = Append(sent, id)
            /\ pendingId' = id
            /\ cpc' = IF id \in {NoId, 0} THEN "ready" ELSE "recv"
    /\ UNCHANGED subjectVars
    /\ UNCHANGED <<stdinClosed, drain, stderrLines, probes, probesAlive, stdoutRead,
                   closeTrace, mainVars>>

\* Call by a user that does not wait for recv to end before the next call
CallWhileWaiting(id) ==
    /\ cpc \in {"ready", "recv"} /\ calls < MaxCalls
    /\ calls' = calls + 1
    /\ idCounter' = IF id = NoId THEN idCounter ELSE idCounter + 1
    /\ recvResult' = NoFrame
    /\ errTail' = <<>>
    /\ buf' = <<>>
    /\ elapsed' = 0
    /\ IF proc = "exited"
       THEN /\ raised' = "BrokenPipeError"
            /\ UNCHANGED <<sent, cpc, pendingId>>
       ELSE /\ raised' = ""
            /\ sent' = Append(sent, id)
            /\ pendingId' = id
            /\ cpc' = IF id = NoId THEN "ready" ELSE "recv"
    /\ UNCHANGED subjectVars
    /\ UNCHANGED <<stdinClosed, drain, stderrLines, probes, probesAlive, stdoutRead,
                   closeTrace, mainVars>>

\* call(method, params, id_): send(msg), then recv() when id_ is not None.
\* send writes to the subject's stdin and flushes: BrokenPipeError once the
\* subject has exited.  The driver passes no id or the next id of a counter
\* that starts at 0.
Call(id) ==
    /\ cpc = "ready" /\ calls < MaxCalls
    /\ calls' = calls + 1
    /\ idCounter' = IF id = NoId THEN idCounter ELSE idCounter + 1
    /\ recvResult' = NoFrame
    /\ errTail' = <<>>
    /\ buf' = <<>>
    /\ elapsed' = 0
    /\ IF proc = "exited"
       THEN /\ raised' = "BrokenPipeError"
            /\ UNCHANGED <<sent, cpc, pendingId>>
       ELSE /\ raised' = ""
            /\ sent' = Append(sent, id)
            /\ pendingId' = id
            /\ cpc' = IF id = NoId THEN "ready" ELSE "recv"
    /\ UNCHANGED subjectVars
    /\ UNCHANGED <<stdinClosed, drain, stderrLines, probes, probesAlive, stdoutRead,
                   closeTrace, mainVars>>

\* `while time.time() < deadline`: select() times out after one slice with
\* nothing to read
RecvSelectIdle ==
    /\ cpc = "recv" /\ elapsed < TIMEOUT
    /\ outPipe = <<>> /\ stdoutOpen
    /\ elapsed' = elapsed + SelectSlice
    /\ cpc' = "recv_poll"
    /\ UNCHANGED subjectVars
    /\ UNCHANGED <<stdinClosed, drain, stderrLines, probes, probesAlive, raised, errTail,
                   sent, pendingId, buf, recvResult, stdoutRead, calls, idCounter,
                   closeTrace, mainVars>>

\* `if not ready[0]`: poll(); EOFError when the subject has exited, else continue
RecvPoll ==
    /\ cpc = "recv_poll"
    /\ IF proc = "exited"
       THEN /\ raised' = "EOFError"
            /\ errTail' = LastN(stderrLines, RecvTail)
            /\ buf' = <<>>
            /\ cpc' = "ready"
       ELSE /\ cpc' = "recv"
            /\ UNCHANGED <<raised, errTail, buf>>
    /\ UNCHANGED subjectVars
    /\ UNCHANGED <<stdinClosed, drain, stderrLines, probes, probesAlive,
                   sent, pendingId, elapsed, recvResult, stdoutRead, calls, idCounter,
                   closeTrace, mainVars>>

\* select() reports stdout readable (data, or end of stream) after waiting d
\* seconds, rounded; os.read takes what is in the pipe; the buffer is scanned.
RecvRead(d) ==
    /\ cpc = "recv" /\ elapsed < TIMEOUT
    /\ outPipe # <<>> \/ ~stdoutOpen
    /\ elapsed' = elapsed + d
    /\ stdoutRead' = TRUE
    /\ outPipe' = <<>>
    /\ IF outPipe = <<>>
       THEN /\ raised' = "EOFError"
            /\ errTail' = LastN(stderrLines, RecvTail)
            /\ buf' = <<>>
            /\ cpc' = "ready"
            /\ UNCHANGED recvResult
       ELSE LET r == ScanLines(buf \o outPipe)
            IN  CASE r.kind = "frame" ->
                       /\ recvResult' = [kind |-> "frame", id |-> r.id]
                       /\ buf' = <<>>
                       /\ cpc' = "ready"
                       /\ UNCHANGED <<raised, errTail>>
                  [] r.kind = "UnicodeDecodeError" ->
                       /\ raised' = "UnicodeDecodeError"
                       /\ buf' = <<>>
                       /\ cpc' = "ready"
                       /\ UNCHANGED <<recvResult, errTail>>
                  [] OTHER ->
                       /\ buf' = r.rest
                       /\ UNCHANGED <<recvResult, raised, errTail, cpc>>
    /\ UNCHANGED <<proc, exitCode, stdoutOpen, stderrOpen, errPipe, writes, errWritten>>
    /\ UNCHANGED <<stdinClosed, drain, stderrLines, probes, probesAlive,
                   sent, pendingId, calls, idCounter, closeTrace, mainVars>>

\* the loop condition fails: raise TimeoutError
RecvTimeout ==
    /\ cpc = "recv" /\ elapsed >= TIMEOUT
    /\ raised' = "TimeoutError"
    /\ buf' = <<>>
    /\ cpc' = "ready"
    /\ UNCHANGED subjectVars
    /\ UNCHANGED <<stdinClosed, drain, stderrLines, probes, probesAlive, errTail,
                   sent, pendingId, elapsed, recvResult, stdoutRead, calls, idCounter,
                   closeTrace, mainVars>>

\* ---------------------------------------------------------- McpClient.close
\* CloseStdin without the try / except: a failing stdin.close() leaves close
CloseStdinRaises(fails) ==
    /\ cpc = "close"
    /\ stdinClosed' = TRUE
    /\ closeTrace' = <<IF fails THEN "stdin_close_failed" ELSE "stdin_close">>
    /\ cpc' = IF fails THEN "closed" ELSE "close_term"
    /\ UNCHANGED subjectVars
    /\ UNCHANGED <<drain, stderrLines, probes, probesAlive, raised, errTail,
                   sent, recvVars, calls, idCounter, mainVars>>

\* try: stdin.close() except: pass
CloseStdin(fails) ==
    /\ cpc = "close"
    /\ stdinClosed' = TRUE
    /\ closeTrace' = <<IF fails THEN "stdin_close_failed" ELSE "stdin_close">>
    /\ cpc' = "close_term"
    /\ UNCHANGED subjectVars
    /\ UNCHANGED <<drain, stderrLines, probes, probesAlive, raised, errTail,
                   sent, recvVars, calls, idCounter, mainVars>>

\* proc.terminate(): SIGTERM, which the subject may honour or ignore
CloseTerminate ==
    /\ cpc = "close_term"
    /\ closeTrace' = Append(closeTrace, "terminate")
    /\ cpc' = "close_wait"
    /\ UNCHANGED subjectVars
    /\ UNCHANGED <<stdinClosed, drain, stderrLines, probes, probesAlive, raised, errTail,
                   sent, recvVars, calls, idCounter, mainVars>>

\* proc.wait(timeout=5): returns once the subject has exited, raises
\* TimeoutExpired when it is still alive after the interval
CloseWait ==
    /\ cpc = "close_wait"
    /\ IF proc = "exited"
       THEN /\ closeTrace' = Append(closeTrace, "wait_returned")
            /\ cpc' = "closed"
       ELSE /\ closeTrace' = Append(closeTrace, "wait_timeout")
            /\ cpc' = "close_kill"
    /\ UNCHANGED subjectVars
    /\ UNCHANGED <<stdinClosed, drain, stderrLines, probes, probesAlive, raised, errTail,
                   sent, recvVars, calls, idCounter, mainVars>>

\* except: proc.kill()
CloseKill ==
    /\ cpc = "close_kill"
    /\ closeTrace' = Append(closeTrace, "kill")
    /\ cpc' = "closed"
    /\ proc' = "exited"
    /\ exitCode' = IF proc = "exited" THEN exitCode ELSE -9
    /\ stdoutOpen' = FALSE
    /\ stderrOpen' = FALSE
    /\ UNCHANGED <<outPipe, errPipe, writes, errWritten>>
    /\ UNCHANGED <<stdinClosed, drain, stderrLines, probes, probesAlive, raised, errTail,
                   sent, recvVars, calls, idCounter, mainVars>>

\* ------------------------------------------------- transport specification
\* A user of the client that calls it any number of times, then closes it
\* (recv's locals are gone by then).
DriverClose ==
    /\ cpc = "ready"
    /\ cpc' = "close"
    /\ elapsed' = 0
    /\ UNCHANGED subjectVars
    /\ UNCHANGED <<stdinClosed, drain, stderrLines, probes, probesAlive, raised, errTail,
                   sent, buf, recvResult, stdoutRead, pendingId, calls, idCounter,
                   closeTrace, mainVars>>

InitTransport ==
    /\ proc = "none" /\ exitCode = 0
    /\ stdoutOpen = FALSE /\ stderrOpen = FALSE
    /\ outPipe = <<>> /\ errPipe = <<>>
    /\ writes = 0 /\ errWritten = 0
    /\ stdinClosed = FALSE
    /\ cpc = "new"
    /\ drain = "unstarted"
    /\ stderrLines = <<>>
    /\ probes = 0 /\ probesAlive = 0
    /\ raised = "" /\ errTail = <<>>
    /\ sent = <<>>
    /\ pendingId = NoId
    /\ buf = <<>> /\ elapsed = 0
    /\ recvResult = NoFrame
    /\ stdoutRead = FALSE
    /\ calls = 0 /\ idCounter = 0
    /\ closeTrace = <<>>

InitMainLocals ==
    /\ PASS = 0 /\ FAIL = 0 /\ exitStatus = -1
    /\ tmpdir = "none"
    /\ taskId = "" /\ task2Id = ""
    /\ pollI = 0 /\ completed = FALSE
    /\ excPending = ""
    /\ summary = FALSE
    /\ lastTest = 0 /\ failedCall = 0
    /\ seen = NoSeen
    /\ noDetail = 0 /\ recorded = 0 /\ total = -1

InitMainVars ==
    /\ InitMainLocals
    /\ envelope = NoEnvelope /\ toolOut = NoOut /\ verdict = NoVerdict
    /\ InitSide

\* a client used on its own: main is not running
InitClient == InitTransport /\ mpc = "idle" /\ InitMainVars

\* Bytes the subject writes to stdout while __init__ is still probing stay in
\* the pipe until the first recv reads them, so the subject's stdout writes are
\* taken from the moment the client is constructed.  The stderr lines are left
\* to SpecBoot.
NextTransport ==
    \/ Popen
    \/ StartDrain
    \/ Probe
    \/ BootRaise
    \/ \E id \in {NoId, idCounter} : Call(id)
    \/ RecvSelectIdle
    \/ RecvPoll
    \/ \E d \in {0, SelectSlice} : RecvRead(d)
    \/ RecvTimeout
    \/ DriverClose
    \/ \E fails \in BOOLEAN : CloseStdin(fails)
    \/ CloseTerminate
    \/ CloseWait
    \/ CloseKill
    \/ \E chunk \in Chunks : cpc \in {"ready", "recv", "recv_poll"} /\ SubjectWrite(chunk)
    \/ SubjectCloseStdout
    \/ \E code \in ExitCodes : SubjectExit(code)
    \/ DrainEof

SpecTransport == InitClient /\ [][NextTransport]_vars

\* ------------------------------------------------------ boot specification
\* The client with a subject that writes to stderr only: construction, the
\* stderr thread, calls that end by timeout or end of stream, close.
NextBoot ==
    \/ Popen
    \/ StartDrain
    \/ Probe
    \/ BootRaise
    \/ \E id \in {NoId, idCounter} : Call(id)
    \/ RecvSelectIdle
    \/ RecvPoll
    \/ \E d \in {0, SelectSlice} : RecvRead(d)
    \/ RecvTimeout
    \/ DriverClose
    \/ \E fails \in BOOLEAN : CloseStdin(fails)
    \/ CloseTerminate
    \/ CloseWait
    \/ CloseKill
    \/ SubjectWriteErr
    \/ SubjectCloseStdout
    \/ \E code \in ExitCodes : SubjectExit(code)
    \/ DrainLine
    \/ DrainEof

SpecBoot == InitClient /\ [][NextBoot]_vars

\* ------------------------------------------------- claims on the transport
\* The first line of b that json.loads accepts, whatever precedes it.
RECURSIVE FirstJsonLine(_)
FirstJsonLine(b) ==
    IF ~HasNL(b) THEN NoFrame
    ELSE LET i == IndexOfNL(b)
             line == SelectSeq(SubSeq(b, 1, i - 1), LAMBDA x : x.t # "W")
         IN  IF Len(line) = 1 /\ line[1].t = "J"
             THEN [kind |-> "frame", id |-> line[1].id]
             ELSE FirstJsonLine(SubSeq(b, i + 1, Len(b)))

InRecv == cpc \in {"recv", "recv_poll"}
RecvEnds == InRecv /\ cpc' = "ready"

\* C1: the frame recv returns for a call carries the id of the request sent.
C1_RecvReturnsRequestId ==
    recvResult.kind = "frame" => recvResult.id = pendingId

\* C2: recv ends by returning a frame, by EOFError or by TimeoutError, and
\* never runs past TIMEOUT plus one polling slice.
C2_RecvEndsInTime ==
    /\ InRecv => elapsed <= TIMEOUT + SelectSlice
    /\ raised \in {"", "RuntimeError", "BrokenPipeError", "EOFError", "TimeoutError"}

\* C8: when recv ends after the subject has exited, it returns the well-formed
\* frame the subject had written if there is one, and raises EOFError otherwise.
C8_ExitedSubjectGivesEofOrFrame ==
    [][(RecvEnds /\ proc = "exited") =>
         IF FirstJsonLine(buf \o outPipe).kind = "frame"
         THEN recvResult' = FirstJsonLine(buf \o outPipe) /\ raised' = raised
         ELSE raised' = "EOFError"]_vars

\* C9: a read that brings lines which are not JSON documents does not make recv
\* fail: recv raises nothing on it, and returns the first JSON line if one follows.
C9_MalformedLinesSkipped ==
    [][(cpc = "recv" /\ outPipe # <<>> /\ outPipe' = <<>>) =>
         /\ raised' = raised
         /\ FirstJsonLine(buf \o outPipe).kind = "frame" =>
                recvResult' = FirstJsonLine(buf \o outPipe)]_vars

\* C10: the stderr thread is started once the subject is spawned and before
\* any probe, recv or read of stdout, and it only ends at the end of stderr.
C10_DrainStartedBeforeStdoutRead ==
    /\ drain # "unstarted" => proc # "none"
    /\ (stdoutRead \/ probes > 0 \/ sent # <<>> \/ cpc \notin {"new", "spawned"})
          => drain # "unstarted"
    /\ drain = "done" => (~stderrOpen /\ errPipe = <<>>)

C10_Witness == stdoutRead /\ drain = "running" /\ recvResult.kind = "frame"

\* C7: the constructor makes at most BootProbes probes; it raises RuntimeError
\* at the first probe that finds the subject exited, with the last BootTail
\* stderr lines read by then; it returns only after BootProbes probes found the
\* subject alive; nothing is sent to the subject before that.
C7_BootstrapProbes ==
    /\ probes <= BootProbes /\ probesAlive <= probes
    /\ cpc \in {"boot_exited", "bootfail"} =>
          /\ proc = "exited"
          /\ probes = probesAlive + 1
          /\ sent = <<>>
    /\ cpc = "bootfail" =>
          /\ raised = "RuntimeError"
          /\ \E j \in 0..Len(stderrLines) :
                 errTail = LastN(SubSeq(stderrLines, 1, j), BootTail)
    /\ cpc \notin {"new", "spawned", "boot", "boot_exited", "bootfail"} =>
          probes = BootProbes /\ probesAlive = BootProbes
    /\ sent # <<>> => probesAlive = BootProbes

C7_Witness ==
    /\ cpc = "bootfail" /\ probes = 2
    /\ Len(stderrLines) > BootTail
    /\ errTail = LastN(stderrLines, BootTail)

\* C11: the stderr buffer never holds more lines than the tail window the
\* client reports from it.
C11_StderrBufferBounded ==
    Len(stderrLines) <= BootTail

\* C12: the stderr buffer changes only by the drain thread appending one line
\* (the thread using the client does not move in that step), so the buffer is
\* a prefix of what it is later; the client's thread only takes a tail of it
\* when it raises, and leaves the buffer as it is.
C12_StderrBufferAppendOnly ==
    [][/\ stderrLines' # stderrLines =>
             /\ drain = "running" /\ errPipe # <<>>
             /\ stderrLines' = Append(stderrLines, Head(errPipe))
             /\ cpc' = cpc /\ raised' = raised /\ errTail' = errTail
       /\ errTail' # errTail =>
             /\ stderrLines' = stderrLines
             /\ errTail' \in {<<>>, LastN(stderrLines, BootTail),
                               LastN(stderrLines, RecvTail)}]_vars

C12_Witness ==
    /\ raised = "EOFError" /\ cpc = "ready"
    /\ errTail # <<>>
    /\ Len(stderrLines) > RecvTail + Len(errTail)

\* C13: a call sends one message (unless send raised BrokenPipeError and sent
\* nothing); without an id it returns at once and stdout is not read; with an
\* id, 0 included, it enters recv once.  Nothing is sent outside a call, recv
\* is entered only by a call with an id, and stdout is read only inside recv.
C13_CallSendsOnceRecvsOnce ==
    [][/\ calls' # calls =>
             \/ raised' = "BrokenPipeError" /\ sent' = sent /\ cpc' = "ready"
             \/ /\ Len(sent') = Len(sent) + 1
                /\ SubSeq(sent', 1, Len(sent)) = sent
                /\ raised' = ""
                /\ IF sent'[Len(sent')] = NoId
                   THEN cpc' = "ready" /\ stdoutRead' = stdoutRead /\ outPipe' = outPipe
                   ELSE cpc' = "recv" /\ pendingId' = sent'[Len(sent')]
       /\ calls' = calls => sent' = sent
       /\ (cpc = "ready" /\ cpc' = "recv") => (calls' # calls /\ sent' # sent)
       /\ (stdoutRead' # stdoutRead \/ Len(outPipe') < Len(outPipe)) => cpc = "recv"]_vars

C13_Witness ==
    sent = <<NoId, 0>> /\ cpc = "ready" /\ recvResult.kind = "frame" /\ stdoutRead

CloseOrders ==
    LET full(s) == <<s, "terminate", "wait_timeout", "kill">>
    IN  {<<>>} \cup
        UNION {{SubSeq(full(s), 1, n) : n \in 1..4} \cup {<<s, "terminate", "wait_returned">>}
                 : s \in {"stdin_close", "stdin_close_failed"}}

\* C6: close closes stdin, sends terminate, waits, and kills only after the
\* wait timed out; a failing stdin close changes nothing of this, and close
\* returns only after the wait returned or the kill was sent.
C6_CloseOrder ==
    /\ closeTrace \in CloseOrders
    /\ cpc = "closed" =>
          /\ Len(closeTrace) >= 3
          /\ closeTrace[Len(closeTrace)] \in {"wait_returned", "kill"}
    /\ (closeTrace # <<>> /\ closeTrace[Len(closeTrace)] = "wait_returned") => proc = "exited"

C6_Witness ==
    cpc = "closed" /\ closeTrace = <<"stdin_close_failed", "terminate", "wait_timeout", "kill">>

\* ================================================================== main()
MaxPolls == 15         \* range(15) in Test 13

\* How one client.call / client.tool_call made by main can end: "ok" (recv
\* returned a frame, or a notification was sent), or the exception send or
\* recv raised.
CallOutcomes == {"ok", "BrokenPipeError", "EOFError", "TimeoutError", "UnicodeDecodeError"}

\* The transport side of one call made by main, taken as one step.  send raises
\* BrokenPipeError once the subject has exited; recv raises EOFError only when
\* stdout is at end of stream or the subject has exited, which it may do while
\* the call is waiting.
\* msg = {"jsonrpc": "2.0", "method": method, "params": params, "id": id_},
\* written as one string: the method, and for tools/call the tool with the
\* task_id and the action of its arguments
Rpc(method) == method
Tool(tool) == "tools/call " \o tool
ManageTask(task, action) == Tool("manage_task") \o " " \o task \o " " \o action

\* MainCall where a notification takes an id from the counter as well
MainCallCountsNotifications(id, req, o) ==
    /\ idCounter' = IF id = NoId THEN idCounter + 1 ELSE id
    /\ raised' = IF o = "ok" THEN "" ELSE o
    /\ IF proc = "exited"
       THEN /\ o = "BrokenPipeError"
            /\ UNCHANGED <<sent, subjectVars>>
       ELSE /\ o # "BrokenPipeError"
            /\ id = NoId => o = "ok"
            /\ sent' = Append(sent, [id |-> id, req |-> req])
            /\ IF o = "EOFError" /\ stdoutOpen
               THEN /\ proc' = "exited" /\ exitCode' = 1
                    /\ stdoutOpen' = FALSE /\ stderrOpen' = FALSE
                    /\ UNCHANGED <<outPipe, errPipe, writes, errWritten>>
               ELSE UNCHANGED subjectVars

MainCall(id, req, o) ==
    /\ idCounter' = IF id = NoId THEN idCounter ELSE id
    /\ raised' = IF o = "ok" THEN "" ELSE o
    /\ IF proc = "exited"
       THEN /\ o = "BrokenPipeError"
            /\ UNCHANGED <<sent, subjectVars>>
       ELSE /\ o # "BrokenPipeError"
            /\ id = NoId => o = "ok"
            /\ sent' = Append(sent, [id |-> id, req |-> req])
            /\ IF o = "EOFError" /\ stdoutOpen
               THEN /\ proc' = "exited" /\ exitCode' = 1
                    /\ stdoutOpen' = FALSE /\ stderrOpen' = FALSE
                    /\ UNCHANGED <<outPipe, errPipe, writes, errWritten>>
               ELSE UNCHANGED subjectVars

\* what the code that reads a response does: raises exc, or calls log_pass p
\* times and log_fail f times, nd of these with an empty detail
Ev(exc, p, f) == [exc |-> exc, p |-> p, f |-> f, nd |-> 0]
B(b) == IF b THEN 1 ELSE 0
\* the responses a test may read: any of R when the call returned; a call that
\* raised returned none, and one element stands in for it
Answers(o, R) == IF o = "ok" THEN R ELSE {CHOOSE r \in R : TRUE}
\* one if / else that calls log_pass(msg) or log_fail(msg, detail), the detail
\* a string that is never empty (json.dumps, str of a list, an f-string)
Check(b) == Ev("", B(b), B(~b))
\* one if / else whose else branch is log_fail(msg, text): the detail is empty
\* when text is
CheckText(b, empty) == [exc |-> "", p |-> B(b), f |-> B(~b), nd |-> B(~b /\ empty)]
\* one if / else whose else branch is log_fail(msg): detail keeps its default ""
CheckBare(b) == CheckText(b, TRUE)
Plus(a, b) == [exc |-> "", p |-> a.p + b.p, f |-> a.f + b.f, nd |-> a.nd + b.nd]

\* What main leaves alone in a test step
TestFrame == UNCHANGED <<stdinClosed, cpc, drain, stderrLines, probes, probesAlive,
                         errTail, recvVars, calls, closeTrace, exitStatus, tmpdir, summary,
                         total, stepVars, taskVars, genVars, otherVars>>

\* Test n makes one call with a fresh id; the call ends with o and the code
\* that reads the response raises ev.exc or records ev.p passes and ev.f fails.
\* An exception leaves the try block for the finally block.
CallStep(n, req, o, ev, nxt) ==
    /\ cpc = "ready"
    /\ MainCall(idCounter + 1, req, o)
    /\ lastTest' = n
    /\ IF o # "ok"
       THEN /\ excPending' = o /\ failedCall' = n /\ mpc' = "finally"
            /\ noDetail' = 0
            /\ UNCHANGED <<PASS, FAIL, recorded>>
       ELSE IF ev.exc # ""
       THEN /\ excPending' = ev.exc /\ mpc' = "finally"
            /\ noDetail' = 0
            /\ UNCHANGED <<PASS, FAIL, recorded, failedCall>>
       ELSE /\ PASS' = PASS + ev.p /\ FAIL' = FAIL + ev.f /\ mpc' = nxt
            /\ noDetail' = ev.nd
            /\ recorded' = recorded + ev.p + ev.f
            /\ UNCHANGED <<excPending, failedCall>>
    /\ TestFrame

\* SkipStep whose log_fail increments both counters
SkipStepBothCounters(n, nxt) ==
    /\ FAIL' = FAIL + 1 /\ PASS' = PASS + 1
    /\ noDetail' = 0
    /\ recorded' = recorded + 1
    /\ lastTest' = n
    /\ mpc' = nxt
    /\ UNCHANGED <<excPending, failedCall, idCounter, sent, raised, subjectVars>>
    /\ TestFrame

\* the else branch of `if task_id:`: one log_fail(msg, "no task_id"), no call
SkipStep(n, nxt) ==
    /\ FAIL' = FAIL + 1
    /\ noDetail' = 0
    /\ recorded' = recorded + 1
    /\ lastTest' = n
    /\ mpc' = nxt
    /\ UNCHANGED <<PASS, excPending, failedCall, idCounter, sent, raised, subjectVars>>
    /\ TestFrame

Done(o, ev) == o = "ok" /\ ev.exc = ""

\* ---- shapes of what tool_call returns
\*   "typeerror"   resp is no JSON object, or result / content / text has a
\*                 type that resp["result"]["content"][0]["text"] or json.loads
\*                 rejects with TypeError, which tool_call does not catch
\*   "nocontent"   result.content is [], IndexError caught: (resp, resp)
\*   "fallback"    a key is missing or text is no JSON: (resp, resp)
\*   "dict" / "list" / "scalar"   text parsed to an object / array / other value
ToolShapes == {"typeerror", "nocontent", "fallback", "dict", "list", "scalar"}
ToolEv(r, ev) == IF r.shape = "typeerror" THEN Ev("TypeError", 0, 0) ELSE ev

\* main(): mkdtemp, create_mock_claude
MainStart ==
    /\ mpc = "start"
    /\ tmpdir' = "exists"
    /\ mpc' = "construct"
    /\ UNCHANGED transportVars
    /\ UNCHANGED <<seen, noDetail, recorded, total, stepVars, taskVars, genVars, otherVars>>
    /\ UNCHANGED <<PASS, FAIL, exitStatus, taskId, task2Id, pollI, completed, excPending,
                   summary, lastTest, failedCall>>

\* client = McpClient(...) returned
MainConstructed ==
    /\ mpc = "construct" /\ cpc = "ready"
    /\ mpc' = "t1"
    /\ UNCHANGED transportVars
    /\ UNCHANGED <<seen, noDetail, recorded, total, stepVars, taskVars, genVars, otherVars>>
    /\ UNCHANGED <<PASS, FAIL, exitStatus, tmpdir, taskId, task2Id, pollI, completed,
                   excPending, summary, lastTest, failedCall>>

\* McpClient(...) raised RuntimeError outside the try block: the interpreter
\* prints the traceback and exits with status 1
MainBootFail ==
    /\ mpc = "construct" /\ cpc = "bootfail"
    /\ excPending' = raised
    /\ exitStatus' = 1
    /\ mpc' = "exited"
    /\ UNCHANGED transportVars
    /\ UNCHANGED <<seen, noDetail, recorded, total, stepVars, taskVars, genVars, otherVars>>
    /\ UNCHANGED <<PASS, FAIL, tmpdir, taskId, task2Id, pollI, completed, summary,
                   lastTest, failedCall>>

\* ---- Test 1: initialize
\* shape: "nondict" resp is no object, "badresult" result / serverInfo is no
\* object (.get raises AttributeError), "noresult" no result key, "result"
InitResps == [shape : {"nondict", "badresult", "noresult", "result"},
              server_name : {"agentic-warden", "other"},
              proto : {"2024-11-05", "other"}]
EvalInit(r) ==
    IF r.shape \in {"nondict", "badresult"} THEN Ev("AttributeError", 0, 0)
    ELSE Plus(Check(r.shape = "result" /\ r.server_name = "agentic-warden"),
              Check(r.shape = "result" /\ r.proto = "2024-11-05"))

\* Test1 that sends the notification only after a handshake without failures
Test1NotifyOnlyOnPass ==
    /\ mpc = "t1"
    /\ \E o \in CallOutcomes : \E r \in Answers(o, InitResps) :
          CallStep(1, Rpc("initialize"), o, EvalInit(r),
                   IF EvalInit(r).f = 0 THEN "t1n" ELSE "t2")
    /\ UNCHANGED <<taskId, task2Id, pollI, completed>>
    /\ seen' = NoSeen

Test1 ==
    /\ mpc = "t1"
    /\ \E o \in CallOutcomes : \E r \in Answers(o, InitResps) : CallStep(1, Rpc("initialize"), o, EvalInit(r), "t1n")
    /\ UNCHANGED <<taskId, task2Id, pollI, completed>>
    /\ seen' = NoSeen

\* client.call("notifications/initialized"); sleep(1)
Test1Notify ==
    /\ mpc = "t1n" /\ cpc = "ready"
    /\ \E o \in {"ok", "BrokenPipeError"} :
          /\ MainCall(NoId, Rpc("notifications/initialized"), o)
          /\ IF o = "ok"
             THEN mpc' = "t2" /\ UNCHANGED <<excPending, failedCall>>
             ELSE mpc' = "finally" /\ excPending' = o /\ failedCall' = 1
    /\ UNCHANGED <<PASS, FAIL, lastTest, taskId, task2Id, pollI, completed, recorded>>
    /\ seen' = NoSeen /\ noDetail' = 0
    /\ TestFrame

\* ---- Test 2: tools/list
ToolNames == {"start_task", "list_tasks", "manage_task",
              "stop_task", "get_task_logs", "get_task_status"}
NewTools == {"start_task", "list_tasks", "manage_task"}
OldTools == {"stop_task", "get_task_logs", "get_task_status"}
\* shape "bad": resp / result is no object, or an entry of tools has no name
ListToolsResps == [shape : {"bad", "noresult", "result"}, tools : SUBSET ToolNames]
EvalListTools(r) ==
    IF r.shape = "bad" THEN Ev("AttributeError", 0, 0)
    ELSE LET tools == IF r.shape = "result" THEN r.tools ELSE {}
             listed == Cardinality(NewTools \cap tools)
             old == Cardinality(OldTools \cap tools)
         IN  Ev("", listed + (3 - old), (3 - listed) + old)

Test2 ==
    /\ mpc = "t2"
    /\ \E o \in CallOutcomes : \E r \in Answers(o, ListToolsResps) : CallStep(2, Rpc("tools/list"), o, EvalListTools(r), "t3")
    /\ UNCHANGED <<taskId, task2Id, pollI, completed>>
    /\ seen' = NoSeen

\* ---- Tests 3, 6, 15: list_tasks
\* n: len(data) when data is a list; the flags describe list_text
\* (the text of an empty array, "[]", has none of them)
ListResps ==
    {r \in [shape : ToolShapes, n : 0..2,
            noTasks : BOOLEAN,      \* "No tasks found" in list_text
            header : BOOLEAN,       \* "TASK_ID" in list_text
            hasId : BOOLEAN,        \* the id (its first 10 characters) of task_id is there
            rows : 0..2,            \* table rows that start with "|", header excluded
            empty : BOOLEAN] :      \* list_text is ""
        /\ (r.shape = "list" /\ r.n = 0) =>
              (~r.noTasks /\ ~r.header /\ ~r.hasId /\ r.rows = 0)
        \* list_text is "" only when content[0] has no text or an empty one
        /\ r.empty => /\ r.shape = "fallback"
                      /\ ~r.noTasks /\ ~r.header /\ ~r.hasId /\ r.rows = 0}
\* list_text = raw.get("result", {}).get("content", [{}])[0].get("text", "")
ListTextEv(r, ev) ==
    IF r.shape = "nocontent" THEN Ev("IndexError", 0, 0) ELSE ToolEv(r, ev)

EvalListEmpty(r) ==
    ListTextEv(r, CheckText((r.shape = "list" /\ r.n = 0) \/ r.noTasks, r.empty))

Test3 ==
    /\ mpc = "t3"
    /\ \E o \in CallOutcomes : \E r \in Answers(o, ListResps) : CallStep(3, Tool("list_tasks"), o, EvalListEmpty(r), "t4")
    /\ UNCHANGED <<taskId, task2Id, pollI, completed>>
    /\ seen' = NoSeen

\* ---- Test 4: start_task (long-running)
StartResps == [shape : ToolShapes, task_id : {"", "id"}, pid : {0, 4242},
               status : {"Running", "running", "Failed"}]
\* the payload's fields are there only when text parsed to an object
Payload(r) == r.shape = "dict"
EvalStart(r) ==
    ToolEv(r, Plus(Plus(Check(Payload(r) /\ r.task_id # ""),
                        Check(Payload(r) /\ r.pid # 0)),
                   Check(Payload(r) /\ r.status \in {"Running", "running"})))

Test4 ==
    /\ mpc = "t4"
    /\ \E o \in CallOutcomes : \E r \in Answers(o, StartResps) :
          /\ CallStep(4, Tool("start_task"), o, EvalStart(r), "t5")
          /\ taskId' = IF Done(o, EvalStart(r)) /\ Payload(r) /\ r.task_id # ""
                        THEN "t1" ELSE ""
    /\ UNCHANGED <<task2Id, pollI, completed>>
    /\ seen' = NoSeen

\* ---- Test 5: manage_task(status) while running
StatusResps == [shape : ToolShapes, action : {"status", "other"},
                process_alive : {"True", "False", "None"},
                status : {"Running", "running", "Stopped"},
                sameId : BOOLEAN, started_at : BOOLEAN]
EvalStatusRunning(r) ==
    ToolEv(r, Plus(Plus(CheckBare(Payload(r) /\ r.action = "status"),
                        Check(Payload(r) /\ r.process_alive = "True")),
                   Plus(Check(Payload(r) /\ r.sameId),
                        Check(Payload(r) /\ r.started_at))))

\* Test5 without the `if task_id:` around its call
Test5SendsAnyway ==
    /\ mpc = "t5"
    /\ IF taskId # "" \/ taskId = ""
       THEN \E o \in CallOutcomes : \E r \in Answers(o, StatusResps) :
               CallStep(5, ManageTask(taskId, "status"), o, EvalStatusRunning(r), "t6")
       ELSE SkipStep(5, "t6")
    /\ UNCHANGED <<taskId, task2Id, pollI, completed>>
    /\ seen' = NoSeen

Test5 ==
    /\ mpc = "t5"
    /\ IF taskId # ""
       THEN \E o \in CallOutcomes : \E r \in Answers(o, StatusResps) :
               CallStep(5, ManageTask(taskId, "status"), o, EvalStatusRunning(r), "t6")
       ELSE SkipStep(5, "t6")
    /\ UNCHANGED <<taskId, task2Id, pollI, completed>>
    /\ seen' = NoSeen

\* ---- Test 6: list_tasks while running.  task_id[:10] in list_text holds for
\* every list_text when task_id is ""; "" is in task_ids_in_list when an entry
\* has no task_id.
EvalListRunning(r, tid) ==
    ListTextEv(r,
        IF r.shape = "list" /\ r.n >= 1
        THEN Plus(Ev("", 1, 0), Check(r.hasId))
        ELSE IF r.header /\ (tid = "" \/ r.hasId)
        THEN Ev("", 2, 0)
        ELSE CheckText(FALSE, r.empty))

Test6 ==
    /\ mpc = "t6"
    /\ \E o \in CallOutcomes : \E r \in Answers(o, ListResps) :
          CallStep(6, Tool("list_tasks"), o, EvalListRunning(r, taskId), "t7")
    /\ UNCHANGED <<taskId, task2Id, pollI, completed>>
    /\ seen' = NoSeen

\* ---- Tests 7, 8, 11, 14: manage_task(logs)
LogsResps == [shape : ToolShapes, action : {"logs", "other"}, sameId : BOOLEAN,
              log_file : BOOLEAN,
              \* log_content: "" | has the marker looked for | more than 10
              \* characters without the marker | at most 10 characters
              log_content : {"", "marker", "long", "short"}]
\* content = data.get("log_content", "") if isinstance(data, dict) else ""
Content(r) == IF Payload(r) THEN r.log_content ELSE ""
\* Test 7's if / elif / else on content: the log call it makes
LogVerdictRunning(c) ==
    IF c # "" /\ c = "marker" THEN "pass"
    ELSE IF c # "" THEN "softer pass"
    ELSE "fail"
EvalLogsRunning(r) ==
    ToolEv(r, Plus(Plus(CheckBare(Payload(r) /\ r.action = "logs"),
                        Check(Payload(r) /\ r.sameId)),
                   Plus(Check(Payload(r) /\ r.log_file),
                        CheckBare(LogVerdictRunning(Content(r)) # "fail"))))
EvalLogsAny(r) == ToolEv(r, Check(Payload(r) /\ r.log_content # ""))

Test7 ==
    /\ mpc = "t7"
    /\ IF taskId # ""
       THEN \E o \in CallOutcomes : \E r \in Answers(o, LogsResps) : CallStep(7, ManageTask(taskId, "logs"), o, EvalLogsRunning(r), "t8")
       ELSE SkipStep(7, "t8")
    /\ UNCHANGED <<taskId, task2Id, pollI, completed>>
    /\ seen' = NoSeen

Test8 ==
    /\ mpc = "t8"
    /\ IF taskId # ""
       THEN \E o \in CallOutcomes : \E r \in Answers(o, LogsResps) : CallStep(8, ManageTask(taskId, "logs"), o, EvalLogsAny(r), "t9")
       ELSE SkipStep(8, "t9")
    /\ UNCHANGED <<taskId, task2Id, pollI, completed>>
    /\ seen' = NoSeen

\* ---- Test 9: manage_task(status), then manage_task(stop)
Test9Pre ==
    /\ mpc = "t9"
    /\ IF taskId # ""
       THEN \E o \in CallOutcomes : \E r \in Answers(o, StatusResps) :
               CallStep(9, ManageTask(taskId, "status"), o, ToolEv(r, Ev("", 0, 0)), "t9s")
       ELSE SkipStep(9, "t10")
    /\ UNCHANGED <<taskId, task2Id, pollI, completed>>
    /\ seen' = NoSeen

StopResps == [shape : ToolShapes, action : {"stop", "other"},
              success : {"True", "False", "None"}, hasStatus : BOOLEAN]
EvalStop(r) ==
    ToolEv(r, Plus(Plus(CheckBare(Payload(r) /\ r.action = "stop"),
                        Check(Payload(r) /\ r.success = "True")),
                   CheckBare(Payload(r) /\ r.hasStatus)))
EvalRestop(r) == ToolEv(r, Check(Payload(r) /\ r.success = "True"))

Test9Stop ==
    /\ mpc = "t9s"
    /\ \E o \in CallOutcomes : \E r \in Answers(o, StopResps) : CallStep(9, ManageTask(taskId, "stop"), o, EvalStop(r), "t10")
    /\ UNCHANGED <<taskId, task2Id, pollI, completed>>
    /\ seen' = NoSeen

\* ---- Test 10: manage_task(status) after stop
\* status = data.get("status", "") is "" when data is no payload
\* EvalStatusStopped with `if not alive` for `if alive is False`
EvalStatusStoppedFalsy(r) ==
    ToolEv(r, Plus(Check(~(Payload(r) /\ r.process_alive = "True")),
                   Check(~(Payload(r) /\ r.status \in {"Running", "running"}))))

EvalStatusStopped(r) ==
    ToolEv(r, Plus(Check(Payload(r) /\ r.process_alive = "False"),
                   Check(~(Payload(r) /\ r.status \in {"Running", "running"}))))

Test10 ==
    /\ mpc = "t10"
    /\ IF taskId # ""
       THEN \E o \in CallOutcomes : \E r \in Answers(o, StatusResps) :
               /\ CallStep(10, ManageTask(taskId, "status"), o, EvalStatusStopped(r), "t11")
               /\ seen' = IF Done(o, EvalStatusStopped(r))
                          THEN [alive |-> IF Payload(r) THEN r.process_alive ELSE "None",
                                status |-> IF Payload(r) THEN r.status ELSE "",
                                success |-> ""]
                          ELSE NoSeen
       ELSE SkipStep(10, "t11") /\ seen' = NoSeen
    /\ UNCHANGED <<taskId, task2Id, pollI, completed>>

Test11 ==
    /\ mpc = "t11"
    /\ IF taskId # ""
       THEN \E o \in CallOutcomes : \E r \in Answers(o, LogsResps) : CallStep(11, ManageTask(taskId, "logs"), o, EvalLogsAny(r), "t12")
       ELSE SkipStep(11, "t12")
    /\ UNCHANGED <<taskId, task2Id, pollI, completed>>
    /\ seen' = NoSeen

\* ---- Test 12: start_task (short)
EvalStartShort(r) == ToolEv(r, Check(Payload(r) /\ r.task_id # ""))

Test12 ==
    /\ mpc = "t12"
    /\ \E o \in CallOutcomes : \E r \in Answers(o, StartResps) :
          /\ CallStep(12, Tool("start_task"), o, EvalStartShort(r), "t13")
          /\ task2Id' = IF Done(o, EvalStartShort(r)) /\ Payload(r) /\ r.task_id # ""
                         THEN "t2" ELSE ""
    /\ UNCHANGED <<taskId, pollI, completed>>
    /\ seen' = NoSeen

\* Test13Poll without the break after log_pass
Test13PollNoBreak ==
    /\ mpc = "t13" /\ task2Id # "" /\ pollI < MaxPolls
    /\ \E o \in CallOutcomes : \E r \in Answers(o, StatusResps) :
          LET done == o = "ok" /\ Payload(r) /\ r.process_alive = "False"
              ev == ToolEv(r, Ev("", B(done), 0))
          IN  /\ CallStep(13, ManageTask(task2Id, "status"), o, ev,
                          IF pollI + 1 < MaxPolls THEN "t13"
                          ELSE IF done \/ completed THEN "t14" ELSE "t13f")
              /\ completed' = (completed \/ (Done(o, ev) /\ done))
              /\ pollI' = pollI + 1
              /\ seen' = IF Done(o, ev) /\ done
                         THEN [alive |-> r.process_alive, status |-> r.status,
                               success |-> ""]
                         ELSE NoSeen
    /\ UNCHANGED <<taskId, task2Id>>

\* ---- Test 13: poll manage_task(status) until process_alive is False
\* one pass of `for i in range(15)`
Test13Poll ==
    /\ mpc = "t13" /\ task2Id # "" /\ pollI < MaxPolls
    /\ \E o \in CallOutcomes : \E r \in Answers(o, StatusResps) :
          LET done == o = "ok" /\ Payload(r) /\ r.process_alive = "False"
              ev == ToolEv(r, Ev("", B(done), 0))
          IN  /\ CallStep(13, ManageTask(task2Id, "status"), o, ev,
                          IF done THEN "t14"
                          ELSE IF pollI + 1 = MaxPolls THEN "t13f" ELSE "t13")
              /\ completed' = (Done(o, ev) /\ done)
              /\ pollI' = pollI + 1
              /\ seen' = IF Done(o, ev) /\ done
                         THEN [alive |-> r.process_alive, status |-> r.status,
                               success |-> ""]
                         ELSE NoSeen
    /\ UNCHANGED <<taskId, task2Id>>

Test13Skip ==
    /\ mpc = "t13" /\ task2Id = ""
    /\ SkipStep(13, "t14")
    /\ UNCHANGED <<taskId, task2Id, pollI, completed>>
    /\ seen' = NoSeen

\* `if not completed`: log_fail, then manage_task(stop), its response unread
Test13Stop ==
    /\ mpc = "t13f" /\ cpc = "ready"
    /\ \E o \in CallOutcomes : \E r \in Answers(o, StopResps) :
          /\ MainCall(idCounter + 1, ManageTask(task2Id, "stop"), o)
          /\ FAIL' = FAIL + 1
          /\ noDetail' = 1
          /\ recorded' = recorded + 1
          /\ IF o # "ok"
             THEN excPending' = o /\ failedCall' = 13 /\ mpc' = "finally"
             ELSE IF r.shape = "typeerror"
             THEN excPending' = "TypeError" /\ mpc' = "finally" /\ UNCHANGED failedCall
             ELSE mpc' = "t14" /\ UNCHANGED <<excPending, failedCall>>
    /\ UNCHANGED <<PASS, lastTest, taskId, task2Id, pollI, completed>>
    /\ seen' = NoSeen
    /\ TestFrame

\* ---- Test 14: logs of the completed task
\* len(content) > 10
MoreThan10(c) == c \in {"marker", "long"}
\* Test 14 with `elif content:` in place of `elif content and len(content) > 10:`
LogVerdictCompletedAnyContent(c) ==
    IF c # "" /\ c = "marker" THEN "pass"
    ELSE IF c # "" THEN "softer pass"
    ELSE "fail"

\* Test 14's if / elif / else on content: the log call it makes
LogVerdictCompleted(c) ==
    IF c # "" /\ c = "marker" THEN "pass"
    ELSE IF c # "" /\ MoreThan10(c) THEN "softer pass"
    ELSE "fail"
EvalLogsCompleted(r) == ToolEv(r, Check(LogVerdictCompleted(Content(r)) # "fail"))

Test14 ==
    /\ mpc = "t14"
    /\ IF task2Id # ""
       THEN \E o \in CallOutcomes : \E r \in Answers(o, LogsResps) :
               CallStep(14, ManageTask(task2Id, "logs"), o, EvalLogsCompleted(r), "t15")
       ELSE SkipStep(14, "t15")
    /\ UNCHANGED <<taskId, task2Id, pollI, completed>>
    /\ seen' = NoSeen

\* ---- Test 15: list_tasks shows history
EvalListHistory(r) ==
    ListTextEv(r, CheckText((r.shape = "list" /\ r.n >= 2) \/ (r.header /\ r.rows >= 2),
                            r.empty))

Test15 ==
    /\ mpc = "t15"
    /\ \E o \in CallOutcomes : \E r \in Answers(o, ListResps) : CallStep(15, Tool("list_tasks"), o, EvalListHistory(r), "t16")
    /\ UNCHANGED <<taskId, task2Id, pollI, completed>>
    /\ seen' = NoSeen

\* ---- Tests 16, 17: error responses
ErrResps == [shape : ToolShapes,
             isError : BOOLEAN,     \* raw["result"]["isError"] is truthy
             errorKey : BOOLEAN,    \* "error" in raw
             errText : BOOLEAN]     \* str(data).lower() has one of the words looked for
EvalError(r) == ToolEv(r, Check(r.isError \/ r.errorKey \/ r.errText))

Test16 ==
    /\ mpc = "t16"
    /\ \E o \in CallOutcomes : \E r \in Answers(o, ErrResps) : CallStep(16, ManageTask("nonexistent", "status"), o, EvalError(r), "t17")
    /\ UNCHANGED <<taskId, task2Id, pollI, completed>>
    /\ seen' = NoSeen

Test17 ==
    /\ mpc = "t17"
    /\ IF taskId # ""
       THEN \E o \in CallOutcomes : \E r \in Answers(o, ErrResps) : CallStep(17, ManageTask(taskId, "invalid_action"), o, EvalError(r), "t18")
       ELSE SkipStep(17, "t18")
    /\ UNCHANGED <<taskId, task2Id, pollI, completed>>
    /\ seen' = NoSeen

\* ---- Tests 18, 19: stop a task that has already ended
Test18 ==
    /\ mpc = "t18"
    /\ IF taskId # ""
       THEN \E o \in CallOutcomes : \E r \in Answers(o, StopResps) :
               /\ CallStep(18, ManageTask(taskId, "stop"), o, EvalRestop(r), "t19")
               /\ seen' = IF Done(o, EvalRestop(r))
                          THEN [alive |-> "", status |-> "",
                                success |-> IF Payload(r) THEN r.success ELSE "None"]
                          ELSE NoSeen
       ELSE SkipStep(18, "t19") /\ seen' = NoSeen
    /\ UNCHANGED <<taskId, task2Id, pollI, completed>>

Test19 ==
    /\ mpc = "t19"
    /\ IF task2Id # ""
       THEN \E o \in CallOutcomes : \E r \in Answers(o, StopResps) :
               /\ CallStep(19, ManageTask(task2Id, "stop"), o, EvalRestop(r), "finally")
               /\ seen' = IF Done(o, EvalRestop(r))
                          THEN [alive |-> "", status |-> "",
                                success |-> IF Payload(r) THEN r.success ELSE "None"]
                          ELSE NoSeen
       ELSE SkipStep(19, "finally") /\ seen' = NoSeen
    /\ UNCHANGED <<taskId, task2Id, pollI, completed>>

\* MainFinally with client.close() left out of the finally block
MainFinallySkipsClose ==
    /\ mpc = "finally" /\ cpc = "ready"
    /\ cpc' = "closed"
    /\ mpc' = "closing"
    /\ UNCHANGED subjectVars
    /\ UNCHANGED <<stdinClosed, drain, stderrLines, probes, probesAlive, raised, errTail,
                   sent, recvVars, calls, idCounter, closeTrace>>
    /\ UNCHANGED <<PASS, FAIL, exitStatus, tmpdir, taskId, task2Id, pollI, completed,
                   excPending, summary, lastTest, failedCall>>
    /\ seen' = NoSeen /\ noDetail' = 0
    /\ UNCHANGED <<recorded, total, stepVars, taskVars, genVars, otherVars>>

\* ---- finally: client.close(); shutil.rmtree(tmpdir, ignore_errors=True)
MainFinally ==
    /\ mpc = "finally" /\ cpc = "ready"
    /\ cpc' = "close"
    /\ mpc' = "closing"
    /\ UNCHANGED subjectVars
    /\ UNCHANGED <<stdinClosed, drain, stderrLines, probes, probesAlive, raised, errTail,
                   sent, recvVars, calls, idCounter, closeTrace>>
    /\ UNCHANGED <<PASS, FAIL, exitStatus, tmpdir, taskId, task2Id, pollI, completed,
                   excPending, summary, lastTest, failedCall>>
    /\ seen' = NoSeen /\ noDetail' = 0
    /\ UNCHANGED <<recorded, total, stepVars, taskVars, genVars, otherVars>>

\* close returned: rmtree, then the pending exception leaves main (the
\* interpreter exits with status 1) or main goes on to the summary
MainCleanup ==
    /\ mpc = "closing" /\ cpc = "closed"
    /\ tmpdir' = "removed"
    /\ IF excPending # ""
       THEN mpc' = "exited" /\ exitStatus' = 1
       ELSE mpc' = "summary" /\ UNCHANGED exitStatus
    /\ UNCHANGED transportVars
    /\ UNCHANGED <<seen, noDetail, recorded, total, stepVars, taskVars, genVars, otherVars>>
    /\ UNCHANGED <<PASS, FAIL, taskId, task2Id, pollI, completed, excPending, summary,
                   lastTest, failedCall>>

\* MainSummary that ends with sys.exit(0)
MainSummaryExitsZero ==
    /\ mpc = "summary"
    /\ summary' = TRUE
    /\ exitStatus' = 0
    /\ mpc' = "exited"
    /\ UNCHANGED transportVars
    /\ total' = PASS + FAIL
    /\ UNCHANGED <<seen, noDetail, recorded, stepVars, taskVars, genVars, otherVars>>
    /\ UNCHANGED <<PASS, FAIL, tmpdir, taskId, task2Id, pollI, completed, excPending,
                   lastTest, failedCall>>

\* print the Results line; sys.exit(1 if FAIL > 0 else 0)
MainSummary ==
    /\ mpc = "summary"
    /\ summary' = TRUE
    /\ exitStatus' = IF FAIL > 0 THEN 1 ELSE 0
    /\ mpc' = "exited"
    /\ UNCHANGED transportVars
    /\ total' = PASS + FAIL
    /\ UNCHANGED <<seen, noDetail, recorded, stepVars, taskVars, genVars, otherVars>>
    /\ UNCHANGED <<PASS, FAIL, tmpdir, taskId, task2Id, pollI, completed, excPending,
                   lastTest, failedCall>>

InitMain == InitTransport /\ mpc = "start" /\ InitMainVars

NextMain ==
    \/ MainStart
    \/ Popen
    \/ StartDrain
    \/ Probe
    \/ BootRaise
    \/ MainConstructed
    \/ MainBootFail
    \/ Test1
    \/ Test1Notify
    \/ Test2
    \/ Test3
    \/ Test4
    \/ Test5
    \/ Test6
    \/ Test7
    \/ Test8
    \/ Test9Pre
    \/ Test9Stop
    \/ Test10
    \/ Test11
    \/ Test12
    \/ Test13Poll
    \/ Test13Skip
    \/ Test13Stop
    \/ Test14
    \/ Test15
    \/ Test16
    \/ Test17
    \/ Test18
    \/ Test19
    \/ MainFinally
    \/ \E fails \in BOOLEAN : CloseStdin(fails)
    \/ CloseTerminate
    \/ CloseWait
    \/ CloseKill
    \/ MainCleanup
    \/ MainSummary
    \/ \E code \in ExitCodes : SubjectExit(code)

SpecMain == InitMain /\ [][NextMain]_vars

\* ------------------------------- one response through tool_call and a check
\* The frame recv returned is any JSON value.  An envelope records what
\* tool_call and the checks of Tests 16 and 17 look at:
\*   top       "dict" a JSON object, "other" any other JSON value
\*   errorKey  the object has the key "error"
\*   result    the key "result": "absent" | "null" | "str" | "dict"
\*   isError   result has "isError": "absent" | "false" | "true"
\*   content   result has "content": "absent" | "null" | "dict" | "empty" []
\*             | "list" a non-empty array
\*   item      content[0]: "dict" | "str"
\*   text      content[0] has "text": "absent" | "nonstr" null or a number
\*             | "notjson" a string json.loads rejects | "dict" | "list"
\*             | "scalar" a string that parses to an object / array / other value
\*   says      what the string values of data read, lower-cased: "" nothing
\*             looked for, one of the words, or the echoed action name
Says == {"", "not found", "unknown action", "error", "invalid", "invalid_action"}
OtherEnvelope ==
    [top |-> "other", errorKey |-> FALSE, result |-> "absent", isError |-> "absent",
     content |-> "absent", item |-> "dict", text |-> "absent", says |-> ""]
DictEnvelopes ==
    {e \in [top : {"dict"}, errorKey : BOOLEAN,
            result : {"absent", "null", "str", "dict"},
            isError : {"absent", "false", "true"},
            content : {"absent", "null", "dict", "empty", "list"},
            item : {"dict", "str"},
            text : {"absent", "nonstr", "notjson", "dict", "list", "scalar"},
            says : Says] :
        \* fields of a value that is not there are left at their first value
        /\ e.result # "dict" => (e.isError = "absent" /\ e.content = "absent")
        /\ e.content # "list" => e.item = "dict"
        /\ (e.content # "list" \/ e.item # "dict") => e.text = "absent"}
Envelopes == {OtherEnvelope} \cup DictEnvelopes

Raises(exc) == [exc |-> exc, ret |-> "none", shape |-> "typeerror"]
Returns(ret, shape) == [exc |-> "", ret |-> ret, shape |-> shape]

\* tool_call after call returned resp: resp["result"]["content"][0]["text"],
\* json.loads(text); KeyError, IndexError and JSONDecodeError give (resp, resp),
\* any other exception leaves tool_call
ToolCall(resp) ==
    IF resp.top # "dict" THEN Raises("TypeError")
    ELSE IF resp.result = "absent" THEN Returns("envelope", "fallback")
    ELSE IF resp.result # "dict" THEN Raises("TypeError")
    ELSE IF resp.content \in {"absent", "dict"} THEN Returns("envelope", "fallback")
    ELSE IF resp.content = "null" THEN Raises("TypeError")
    ELSE IF resp.content = "empty" THEN Returns("envelope", "nocontent")
    ELSE IF resp.item # "dict" THEN Raises("TypeError")
    ELSE IF resp.text = "absent" THEN Returns("envelope", "fallback")
    ELSE IF resp.text = "nonstr" THEN Raises("TypeError")
    ELSE IF resp.text = "notjson" THEN Returns("envelope", "fallback")
    ELSE Returns("parsed", resp.text)

\* raw.get("result", {}).get("isError", False) is truthy
IsError(raw) == raw.result = "dict" /\ raw.isError = "true"
\* isinstance(raw, dict) and "error" in raw
HasErrorKey(raw) == raw.top = "dict" /\ raw.errorKey
Words16 == {"not found", "error", "invalid"}
Words17 == {"unknown action", "error", "invalid"}
\* any(w in says for w in words)
SaysWord(says, words) ==
    \/ says \in words
    \/ says = "invalid_action" /\ "invalid" \in words
\* any(w in str(data).lower() for w in words): str(data) holds the keys of data
\* as well as its values, and when tool_call fell back data is the envelope,
\* whose keys "error" and "isError" both read "error" once lower-cased
ErrorInText(raw, out, words) ==
    \/ SaysWord(raw.says, words)
    \/ /\ "error" \in words
       /\ out.ret = "envelope"
       /\ raw.errorKey \/ (raw.result = "dict" /\ raw.isError # "absent")
\* the checks of Test 16 / Test 17 on (data, raw); an exception of tool_call
\* leaves the step before them
ErrorVerdict(raw, out, words) ==
    IF out.exc # "" THEN out.exc
    ELSE IF IsError(raw) \/ HasErrorKey(raw) \/ ErrorInText(raw, out, words)
         THEN "pass" ELSE "fail"

ToolCallStep ==
    /\ toolOut = NoOut
    /\ toolOut' = ToolCall(envelope)
    /\ UNCHANGED <<transportVars, mainLocals, envelope, verdict, taskVars, genVars, otherVars>>

Test16Check ==
    /\ toolOut # NoOut /\ verdict = NoVerdict
    /\ verdict' = [test |-> 16, v |-> ErrorVerdict(envelope, toolOut, Words16)]
    /\ UNCHANGED <<transportVars, mainLocals, envelope, toolOut, taskVars, genVars, otherVars>>

Test17Check ==
    /\ toolOut # NoOut /\ verdict = NoVerdict
    /\ verdict' = [test |-> 17, v |-> ErrorVerdict(envelope, toolOut, Words17)]
    /\ UNCHANGED <<transportVars, mainLocals, envelope, toolOut, taskVars, genVars, otherVars>>

InitStep ==
    /\ InitTransport /\ mpc = "idle" /\ InitMainLocals
    /\ envelope \in Envelopes /\ toolOut = NoOut /\ verdict = NoVerdict
    /\ InitSide

NextStep ==
    \/ ToolCallStep
    \/ Test16Check
    \/ Test17Check

SpecStep == InitStep /\ [][NextStep]_vars

\* -------------------------------------------- claims on tool_call and checks
\* result.content[0].text exists and parses as JSON
PayloadParses(resp) ==
    /\ resp.top = "dict" /\ resp.result = "dict" /\ resp.content = "list"
    /\ resp.item = "dict" /\ resp.text \in {"dict", "list", "scalar"}

\* C14: for every envelope tool_call returns without raising, the parsed payload
\* when result.content[0].text exists and parses, the envelope otherwise.
C14_ToolCallNeverRaises ==
    toolOut # NoOut =>
        /\ toolOut.exc = ""
        /\ toolOut.ret = IF PayloadParses(envelope) THEN "parsed" ELSE "envelope"

\* an error object, result.isError set, or a text that reads one of the words
ErrorSignal(resp, words) ==
    resp.top = "dict" /\ (resp.errorKey \/ IsError(resp) \/ SaysWord(resp.says, words))

\* C19: Test 16 records exactly one verdict and does not raise: a pass when the
\* response carries an error signal, a failure when it carries none.
C19_InvalidTaskIdVerdict ==
    verdict.test = 16 =>
        verdict.v = IF ErrorSignal(envelope, Words16) THEN "pass" ELSE "fail"

\* C20: Test 17 records a pass only for a response with an error signal; a
\* response without one that echoes the action name is recorded as a failure.
C20_InvalidActionVerdict ==
    verdict.test = 17 =>
        /\ verdict.v = "pass" =>
              (envelope.errorKey \/ IsError(envelope) \/ envelope.says \in Words17)
        /\ (envelope.says = "invalid_action" /\ ~envelope.errorKey /\ ~IsError(envelope)) =>
              verdict.v = "fail"

\* ------------------------------------------------------ claims on main()
TransportErrors == {"TimeoutError", "EOFError"}
HasSent(req) == \E i \in 1..Len(sent) : sent[i].req = req
CountSent(req) == Cardinality({i \in 1..Len(sent) : sent[i].req = req})
\* the step sent a request and got an answer to it
Answered == sent' # sent /\ raised' = ""
\* the step recorded one verdict: a pass exactly when b, a failure otherwise
OneVerdict(b) ==
    /\ PASS' + FAIL' = PASS + FAIL + 1
    /\ IF b THEN PASS' = PASS + 1 ELSE FAIL' = FAIL + 1

C4_TransportFailureRecorded ==
    (mpc = "exited" /\ failedCall # 0 /\ raised \in TransportErrors) =>
        (lastTest = 19 /\ FAIL > 0 /\ summary)

\* C5: when main exits after the subject was spawned, the subject has exited:
\* close ran to its end on every path that entered the tests (return or
\* exception), and on the one path without close the constructor had found
\* the subject exited.
C5_SubjectNotAliveAtExit ==
    mpc = "exited" =>
        /\ proc = "exited"
        /\ cpc \in {"closed", "bootfail"}
        /\ cpc = "closed" =>
              /\ Len(closeTrace) >= 3
              /\ closeTrace[Len(closeTrace)] \in {"wait_returned", "kill"}
        /\ cpc = "bootfail" => (lastTest = 0 /\ sent = <<>> /\ probes = probesAlive + 1)
        /\ (lastTest > 0 \/ sent # <<>> \/ summary) => cpc = "closed"

C5_Witness ==
    /\ mpc = "exited" /\ excPending = "TypeError" /\ lastTest = 4
    /\ closeTrace = <<"stdin_close", "terminate", "wait_timeout", "kill">>

\* C16: when Test 18 sends its stop request a stop request for the same task
\* was sent (and answered) before; when Test 19 sends its stop request the task
\* was seen completed or the fallback stop was sent; and the answer is recorded
\* as one pass when success is True, as one failure otherwise.
C16_RestopAfterTerminalState ==
    [][/\ (mpc = "t18" /\ sent' # sent) =>
             /\ taskId # "" /\ HasSent(ManageTask(taskId, "stop"))
             /\ sent'[Len(sent')].req = ManageTask(taskId, "stop")
             /\ Answered => OneVerdict(seen'.success = "True")
       /\ (mpc = "t19" /\ sent' # sent) =>
             /\ task2Id # "" /\ (completed \/ HasSent(ManageTask(task2Id, "stop")))
             /\ sent'[Len(sent')].req = ManageTask(task2Id, "stop")
             /\ Answered => OneVerdict(seen'.success = "True")]_vars

\* the requests main sends for the short task once start_task returned its id
ShortTaskStatus == ManageTask("t2", "status")
ShortTaskStop == ManageTask("t2", "stop")

\* C17: only Test 13's loop sends status requests for the short task, one per
\* iteration and none once process_alive = False was seen, so at most MaxPolls
\* are sent; that observation records one pass and no stop request for the
\* task was sent before it; without it no pass is recorded, and after MaxPolls
\* such polls one failure is recorded and then one stop request is sent.  The
\* loop is left early only by an exception of a call, which ends main.
C17_PollUntilNotAlive ==
    [][LET poll == ShortTaskStatus
           stop == ShortTaskStop
       IN
       /\ pollI <= MaxPolls
       /\ task2Id \in {"", "t2"}
       /\ mpc = "t13f" => (pollI = MaxPolls /\ ~completed)
       /\ (sent' # sent /\ sent'[Len(sent')].req = poll) =>
             /\ mpc = "t13" /\ ~completed
             /\ pollI < MaxPolls /\ pollI' = pollI + 1
       /\ (mpc = "t13" /\ mpc' # "t13") =>
             /\ CountSent(poll)' = pollI' \/ raised' = "BrokenPipeError"
             /\ CountSent(poll)' <= MaxPolls
       /\ completed => pollI' = pollI
       /\ (completed' /\ ~completed) =>
             /\ mpc = "t13" /\ mpc' = "t14"
             /\ seen'.alive = "False"
             /\ ~HasSent(stop)'
             /\ PASS' = PASS + 1 /\ FAIL' = FAIL
       /\ (mpc = "t13" /\ ~completed') => PASS' = PASS
       /\ (mpc = "t13" /\ mpc' = "t14") => (completed' \/ task2Id = "")
       /\ (mpc \in {"t13", "t13f"} /\ mpc' \notin {"t13", "t13f", "t14"}) =>
             (mpc' = "finally" /\ excPending' # "")
       /\ (mpc = "t13f" /\ mpc' # "t13f") =>
             /\ FAIL' = FAIL + 1 /\ PASS' = PASS
             /\ ~HasSent(stop)
             /\ \/ raised' = "BrokenPipeError" /\ sent' = sent
                \/ /\ Len(sent') = Len(sent) + 1
                   /\ sent'[Len(sent')].req = stop]_vars

C17_Witness ==
    /\ mpc = "t14" /\ pollI = MaxPolls /\ ~completed
    /\ CountSent(ShortTaskStatus) = MaxPolls
    /\ CountSent(ShortTaskStop) = 1

\* C18: when Test 13 has recorded the natural completion, the response it
\* accepted had process_alive = False and a status other than Running.
C18_CompletedMeansNotRunning ==
    (completed /\ mpc = "t14") => (seen.alive = "False" /\ seen.status # "Running")

\* C21: no test step records a failure with an empty detail.
C21_FailuresCarryDetail == noDetail = 0

\* C22: the first message sent is the initialize request, with an id; the
\* second is the notifications/initialized notification, sent when the
\* initialize response has been received and read, whatever its two checks
\* recorded; every later message is another request.
C22_HandshakeOrder ==
    [][/\ sent # <<>> => (sent[1].req = Rpc("initialize") /\ sent[1].id # NoId)
       /\ Len(sent) >= 2 =>
             (sent[2].req = Rpc("notifications/initialized") /\ sent[2].id = NoId)
       /\ (Len(sent') > Len(sent) /\ Len(sent) >= 2) =>
             sent'[Len(sent')].req \notin {Rpc("initialize"),
                                          Rpc("notifications/initialized")}
       /\ (Len(sent') > Len(sent) /\ Len(sent) = 1) =>
             (mpc = "t1n" /\ raised = "" /\ excPending = "" /\ recorded = 2)
       /\ (mpc = "t1" /\ Answered /\ excPending' = "") =>
             (mpc' = "t1n" /\ PASS' + FAIL' = 2)
       /\ (mpc = "t1n" /\ mpc' # "t1n") =>
             \/ Len(sent') = 2 /\ mpc' = "t2"
             \/ raised' = "BrokenPipeError" /\ proc = "exited"]_vars

\* both checks of the handshake failed and the notification was sent
C22_Witness ==
    /\ mpc = "t2" /\ PASS = 0 /\ FAIL = 2
    /\ Len(sent) = 2 /\ sent[2].req = Rpc("notifications/initialized")

\* the requests main sends for the long-running task once start_task returned
\* its id
StartTask == Tool("start_task")
LongTaskStatus == ManageTask("t1", "status")
LongTaskLogs == ManageTask("t1", "logs")
LongTaskStop == ManageTask("t1", "stop")
LongTaskRequests ==
    {LongTaskStatus, LongTaskLogs, LongTaskStop, ManageTask("t1", "invalid_action")}
\* the status, logs and stop requests for the long-running task in log, in order
LongTaskLog(log) ==
    LET own == SelectSeq(log, LAMBDA m :
                   m.req \in {LongTaskStatus, LongTaskLogs, LongTaskStop})
    IN  [i \in 1..Len(own) |-> own[i].req]

\* C23: a manage_task request for the long-running task is sent only when an
\* answered start_task returned its task_id; Test 10's status request follows
\* the answered stop request; up to Test 11 the task's requests are status,
\* logs (Tests 7 and 8), a status before the stop, stop, status, logs; and
\* Test 10's two checks pass exactly for process_alive = False and for a
\* status other than Running.
C23_LongTaskOrder ==
    [][/\ (Len(sent') > Len(sent) /\ sent'[Len(sent')].req \in LongTaskRequests) =>
             /\ taskId = "t1" /\ raised = ""
             /\ \E i \in 1..Len(sent) : sent[i].req = StartTask
       /\ (mpc = "t10" /\ Len(sent') > Len(sent)) =>
             /\ sent[Len(sent)].req = LongTaskStop /\ raised = ""
             /\ sent'[Len(sent')].req = LongTaskStatus
       /\ (mpc = "t11" /\ Len(sent') > Len(sent)) =>
             LongTaskLog(sent') = <<LongTaskStatus, LongTaskLogs, LongTaskLogs,
                                    LongTaskStatus, LongTaskStop, LongTaskStatus,
                                    LongTaskLogs>>
       /\ (mpc = "t10" /\ Answered /\ excPending' = "") =>
             /\ PASS' - PASS = B(seen'.alive = "False") +
                               B(seen'.status \notin {"Running", "running"})
             /\ PASS' + FAIL' = PASS + FAIL + 2]_vars

\* Test 10 saw the stopped task and Test 11 has asked for its logs
C23_Witness ==
    /\ mpc = "t12" /\ taskId = "t1" /\ raised = "" /\ lastTest = 11
    /\ LongTaskLog(sent)[5] = LongTaskStop

\* C29: no step lowers PASS or FAIL, each call of log_pass or log_fail adds
\* one to one of them (the two together grow by the number of calls), and the
\* total of the Results line is the number of calls made.
C29_CountersCountAssertions ==
    [][/\ PASS' >= PASS /\ FAIL' >= FAIL
       /\ (PASS' - PASS) + (FAIL' - FAIL) = recorded' - recorded
       /\ PASS + FAIL = recorded
       /\ total' # total => (total = -1 /\ summary' /\ total' = recorded')]_vars

C29_Witness == summary /\ total = recorded /\ PASS > 0 /\ FAIL > 0 /\ lastTest = 19

\* the messages of log that carry an id
WithId(log) == SelectSeq(log, LAMBDA m : m.id # NoId)

\* C30: the ids of the requests sent are 1, 2, 3, ... in the order sent, the
\* notification is the one message without an id, and the id counter is the
\* number of requests sent with an id (a notification takes none); it is one
\* ahead only when the request that took the last id failed to be written.
C30_RequestIdsConsecutive ==
    LET ids == WithId(sent)
    IN  /\ \A i \in 1..Len(ids) : ids[i].id = i
        /\ \A i \in 1..Len(sent) :
              sent[i].req = Rpc("notifications/initialized") <=> sent[i].id = NoId
        /\ idCounter \in {Len(ids), Len(ids) + 1}
        /\ idCounter = Len(ids) + 1 => raised = "BrokenPipeError"

C30_Witness ==
    /\ Len(sent) >= 4 /\ sent[2].id = NoId /\ sent[3].id = 2 /\ sent[4].id = 3

\* ------------------------------------------ the log-content assertions alone
\* One payload tool_call returned for manage_task(logs), taken through the
\* content assertion of Test 7 or of Test 14.
LogAssertion(n, v) ==
    /\ verdict = NoVerdict
    /\ verdict' = [test |-> n, v |-> v]
    /\ PASS' = PASS + B(v # "fail")
    /\ FAIL' = FAIL + B(v = "fail")
    /\ recorded' = recorded + 1
    /\ UNCHANGED <<mpc, exitStatus, tmpdir, taskId, task2Id, pollI, completed, excPending,
                   summary, lastTest, failedCall, seen, total>>
    /\ UNCHANGED <<transportVars, envelope, toolOut, taskVars, genVars, otherVars>>

\* Test 7: the failure is logged without a detail
Test7Content ==
    /\ LogAssertion(7, LogVerdictRunning(Content(envelope)))
    /\ noDetail' = B(verdict'.v = "fail")

\* Test 14: the failure is logged with json.dumps(data)
Test14Content ==
    /\ LogAssertion(14, LogVerdictCompleted(Content(envelope)))
    /\ noDetail' = 0

InitLogs ==
    /\ InitTransport /\ mpc = "idle" /\ InitMainLocals
    /\ envelope \in {r \in LogsResps : r.shape # "typeerror"}
    /\ toolOut = NoOut /\ verdict = NoVerdict
    /\ InitSide

NextLogs ==
    \/ Test7Content
    \/ Test14Content

SpecLogs == InitLogs /\ [][NextLogs]_vars

\* C25: the content assertion makes one log call: a pass when the content has
\* the marker, a softer pass when it has not but is non-empty (Test 7) or has
\* more than 10 characters (Test 14), and a failure in the cases left: no
\* content, or, for Test 14, at most 10 characters.
C25_LogContentVerdict ==
    verdict.test # 0 =>
        LET c == IF envelope.shape = "dict" THEN envelope.log_content ELSE ""
            trivial == IF verdict.test = 7 THEN {""} ELSE {"", "short"}
        IN  /\ PASS + FAIL = 1 /\ recorded = 1
            /\ verdict.v = "pass" <=> c = "marker"
            /\ verdict.v = "softer pass" <=> c \notin trivial \cup {"marker"}
            /\ verdict.v = "fail" <=> c \in trivial
            /\ FAIL = 1 <=> verdict.v = "fail"

C25_Witness ==
    /\ verdict = [test |-> 14, v |-> "fail"]
    /\ envelope.shape = "dict" /\ envelope.log_content = "short"

\* ------------------------------------------------ the subject's tasks
\* The task state machine of the subject, Starting -> Running -> {Stopped |
\* Completed}, and the process_alive values the status polls return.
TaskIds == {"t1", "t2"}    \* task ids are unique: one per start_task
MaxStatusPolls == 3              \* status polls followed per task
Terminal == {"Stopped", "Completed"}
NoTask == [state |-> "none", alive |-> FALSE]

\* start_task that hands out the id of a task that has ended once more
TaskStartReusesId(t) ==
    /\ tasks[t].state \in {"none"} \cup Terminal
    /\ tasks' = [tasks EXCEPT ![t] = [state |-> "Starting", alive |-> TRUE]]
    /\ UNCHANGED <<transportVars, mainLocals, stepVars, genVars, otherVars, polls>>

\* start_task: a new task with a new id, its process spawned
TaskStart(t) ==
    /\ tasks[t].state = "none"
    /\ tasks' = [tasks EXCEPT ![t] = [state |-> "Starting", alive |-> TRUE]]
    /\ UNCHANGED <<transportVars, mainLocals, stepVars, genVars, otherVars, polls>>

\* the task's process ends on its own
TaskExit(t) ==
    /\ tasks[t].alive
    /\ tasks' = [tasks EXCEPT ![t].alive = FALSE]
    /\ UNCHANGED <<transportVars, mainLocals, stepVars, genVars, otherVars, polls>>

\* manage_task(stop): Stopped once the stop succeeds; a task in a terminal
\* state stays in it
TaskStop(t, ok) ==
    /\ tasks[t].state # "none"
    /\ tasks' = IF tasks[t].state \notin Terminal /\ ok
                 THEN [tasks EXCEPT ![t] = [state |-> "Stopped", alive |-> FALSE]]
                 ELSE tasks
    /\ UNCHANGED <<transportVars, mainLocals, stepVars, genVars, otherVars, polls>>

\* manage_task(status): reports whether the process is alive; Running is
\* confirmed by process_alive = true, Completed is inferred from
\* process_alive = false without a stop
TaskStatus(t) ==
    /\ tasks[t].state # "none" /\ Len(polls[t]) < MaxStatusPolls
    /\ polls' = [polls EXCEPT ![t] = Append(@, tasks[t].alive)]
    /\ tasks' = [tasks EXCEPT ![t].state =
                    IF tasks[t].alive
                    THEN IF @ = "Starting" THEN "Running" ELSE @
                    ELSE IF @ \in Terminal THEN @ ELSE "Completed"]
    /\ UNCHANGED <<transportVars, mainLocals, stepVars, genVars, otherVars>>

InitTasks ==
    /\ InitTransport /\ mpc = "idle" /\ InitMainLocals
    /\ envelope = NoEnvelope /\ toolOut = NoOut /\ verdict = NoVerdict
    /\ NotGenerating /\ OthersIdle
    /\ tasks = [t \in TaskIds |-> NoTask]
    /\ polls = [t \in TaskIds |-> <<>>]

NextTasks ==
    \E t \in TaskIds :
        \/ TaskStart(t)
        \/ TaskExit(t)
        \/ \E ok \in BOOLEAN : TaskStop(t, ok)
        \/ TaskStatus(t)

SpecTasks == InitTasks /\ [][NextTasks]_vars

\* C24: a task in Stopped or Completed stays there, and once a status poll
\* of a task has returned process_alive = false, no later poll of the same
\* task returns true.
C24_LivenessMonotonic ==
    [][\A t \in TaskIds :
         /\ tasks[t].state \in Terminal => tasks'[t].state = tasks[t].state
         /\ \A i, j \in 1..Len(polls'[t]) :
               (i < j /\ polls'[t][i] = FALSE) => polls'[t][j] = FALSE]_vars

C24_Witness ==
    \E t \in TaskIds : polls[t] = <<TRUE, FALSE, FALSE>> /\ tasks[t].state = "Stopped"

\* ------------------------------------------------- generate_test_output
\* scripts/generate_test_output.py.  A line is the sequence of the pieces the
\* f-string puts together: the two literal texts and the decimal digits.
DefaultLineCount == 150    \* line_count: int = 150
MinWidth == 3              \* max(3, ...)
MaxLineCount == 40         \* arguments run from -MaxLineCount to MaxLineCount
\* arguments where the number of digits changes, and the default
WidthEdges == {99, 100, DefaultLineCount, 999, 1000, 1200}
LineCounts == ((0 - MaxLineCount)..MaxLineCount) \cup WidthEdges

\* str(i) for i >= 0: its decimal digits
RECURSIVE Digits(_)
Digits(i) == IF i < 10 THEN <<i>> ELSE Append(Digits(i \div 10), i % 10)

\* width without the minimum of 3: len(str(line_count))
WidthOfDigitsOnly(n) == Len(Digits(n))

\* width = max(3, len(str(line_count)))
Width(n) == IF Len(Digits(n)) > MinWidth THEN Len(Digits(n)) ELSE MinWidth

\* {i:0{width}d}: zeros on the left up to width, never a digit cut
ZeroPad(i, w) ==
    LET d == Digits(i)
    IN  IF Len(d) >= w THEN d ELSE [j \in 1..(w - Len(d)) |-> 0] \o d

\* f"Line {i:0{width}d}: Test output line {i}"
FormatLine(i, w) == <<"Line ">> \o ZeroPad(i, w) \o <<": Test output line ">> \o Digits(i)

\* generate_test_output with `if line_count < 0` as its guard
generate_test_output_from_zero(n) ==
    IF n < 0
    THEN [exc |-> "ValueError", ret |-> <<>>]
    ELSE [exc |-> "", ret |-> [i \in 1..n |-> FormatLine(i, Width(n))]]

generate_test_output(n) ==
    IF n < 1
    THEN [exc |-> "ValueError", ret |-> <<>>]
    ELSE [exc |-> "", ret |-> [i \in 1..n |-> FormatLine(i, Width(n))]]

\* the call has not been made
NotCalled == [exc |-> "pending", ret |-> <<>>]
\* the value the parameter is bound to: the argument, or the default
Bound(arg) == IF arg.given THEN arg.n ELSE DefaultLineCount

\* one call, with the argument given or left out
Generate ==
    /\ lines = NotCalled
    /\ lines' = generate_test_output(Bound(line_count))
    /\ UNCHANGED <<transportVars, mainLocals, stepVars, taskVars, otherVars, line_count>>

InitGen ==
    /\ InitTransport /\ mpc = "idle" /\ InitMainLocals
    /\ envelope = NoEnvelope /\ toolOut = NoOut /\ verdict = NoVerdict
    /\ NoTasks /\ OthersIdle
    /\ line_count \in [given : {TRUE}, n : LineCounts] \cup {[given |-> FALSE, n |-> 0]}
    /\ lines = NotCalled

NextGen == Generate

SpecGen == InitGen /\ [][NextGen]_vars

\* the number a sequence of decimal digits reads as
RECURSIVE Value(_)
Value(d) == IF d = <<>> THEN 0 ELSE 10 * Value(SubSeq(d, 1, Len(d) - 1)) + d[Len(d)]
\* how many digits n >= 1 is written with
NumDigits(n) == CHOOSE k \in 1..6 : 10^(k-1) <= n /\ n < 10^k
\* line reads 'Line <i zero-padded to w>: Test output line <i>'
ReadsAsLine(line, i, w) ==
    LET pad == IF NumDigits(i) > w THEN NumDigits(i) ELSE w
    IN  /\ Len(line) = pad + NumDigits(i) + 2
        /\ line[1] = "Line "
        /\ \A j \in 2..(pad + 1) : line[j] \in 0..9
        /\ Value(SubSeq(line, 2, pad + 1)) = i
        /\ line[pad + 2] = ": Test output line "
        /\ \A j \in (pad + 3)..Len(line) : line[j] \in 0..9
        /\ line[pad + 3] # 0
        /\ Value(SubSeq(line, pad + 3, Len(line))) = i

\* C26: a call with n >= 1 returns n lines, the i-th reading
\* 'Line <i zero-padded to max(3, digits of n)>: Test output line <i>'; a call
\* without the argument returns the 150 lines of n = 150.
C26_GeneratesNumberedLines ==
    LET n == Bound(line_count)
    IN  /\ ~line_count.given => n = 150
        /\ (lines # NotCalled /\ n >= 1) =>
              /\ lines.exc = ""
              /\ Len(lines.ret) = n
              /\ \A i \in 1..n :
                    ReadsAsLine(lines.ret[i], i, IF NumDigits(n) > 3 THEN NumDigits(n) ELSE 3)

C26_Witness ==
    /\ ~line_count.given /\ Len(lines.ret) = 150
    /\ lines.ret[7] = <<"Line ", 0, 0, 7, ": Test output line ", 7>>

\* C27: a call with n < 1 raises ValueError and returns no lines.
C27_RejectsLessThanOne ==
    (lines # NotCalled /\ line_count.given /\ line_count.n < 1) =>
        (lines.exc = "ValueError" /\ lines.ret = <<>>)

C27_Witness == line_count = [given |-> TRUE, n |-> 0] /\ lines.exc = "ValueError"

\* the number of complete JSON lines that successive scans of b return
RECURSIVE CountFrames(_)
CountFrames(b) ==
    LET r == ScanLines(b)
    IN  IF r.kind = "frame" THEN 1 + CountFrames(r.rest) ELSE 0

\* C28: a recv that returns a frame leaves every other complete frame it has
\* read where the next recv finds it: the frames in what recv held and read
\* are the one returned and the frames still in the buffer or the pipe.
C28_NoFrameLost ==
    [][(InRecv /\ cpc' = "ready" /\ recvResult'.kind = "frame") =>
         CountFrames(buf \o outPipe) = 1 + CountFrames(buf' \o outPipe')]_vars

\* the steps under `if task_id:`, each with the step that follows it
SkippedWithoutTaskId ==
    {<<"t5", "t6">>, <<"t7", "t8">>, <<"t8", "t9">>, <<"t9", "t10">>, <<"t10", "t11">>,
     <<"t11", "t12">>, <<"t17", "t18">>, <<"t18", "t19">>}

\* C31: with no task_id from start_task, a step that depends on it sends
\* nothing, records one failure and no pass, raises nothing and hands over to
\* the step that follows; no request for the task is ever in the log.
C31_NoTaskIdSkips ==
    [][(taskId = "" /\ mpc' # mpc /\ mpc \in {p[1] : p \in SkippedWithoutTaskId}) =>
         /\ sent' = sent /\ idCounter' = idCounter
         /\ FAIL' = FAIL + 1 /\ PASS' = PASS
         /\ excPending' = "" /\ raised' = raised
         /\ <<mpc, mpc'>> \in SkippedWithoutTaskId
         /\ taskId' = ""
         /\ \A i \in 1..Len(sent) :
               sent[i].req \notin LongTaskRequests \cup {ManageTask("", a) : a \in {"status", "logs", "stop", "invalid_action"}}]_vars

C31_Witness ==
    /\ mpc = "t19" /\ taskId = "" /\ lastTest = 18 /\ raised = "" /\ FAIL >= 8

\* C32: Test 6 records at most two passes, the second being the one that says
\* the task's id was found in the list; it is recorded only when task_id is
\* non-empty, so with an empty task_id Test 6 records one pass at most.
C32_FoundOnlyWithTaskId ==
    [][(mpc = "t6" /\ Answered /\ excPending' = "" /\ taskId = "") =>
         PASS' - PASS <= 1]_vars

\* ------------------------------------------- the stderr thread by itself
\* The drain thread beside __init__, with the bytes of each stderr line kept:
\* a line is valid UTF-8 or not, and reading the stream may fail.
MaxDrainLines == 3     \* stderr lines the subject writes

SubjectWriteErrBytes(utf8) ==
    /\ proc = "alive" /\ stderrOpen /\ errWritten < MaxDrainLines
    /\ errPipe' = Append(errPipe, [n |-> errWritten + 1, utf8 |-> utf8])
    /\ errWritten' = errWritten + 1
    /\ UNCHANGED <<proc, exitCode, stdoutOpen, stderrOpen, outPipe, writes>>
    /\ UNCHANGED <<stdinClosed, cpc, drain, stderrLines, probes, probesAlive, raised, errTail,
                   sent, recvVars, calls, idCounter, closeTrace, mainVars>>

\* line.decode(errors="replace"): bytes that are not UTF-8 become U+FFFD,
\* no UnicodeDecodeError is raised
DecodeReplace(line) == [n |-> line.n, replaced |-> ~line.utf8]

\* one turn of `for line in self.proc.stderr`
DrainDecodedLine ==
    /\ drain = "running" /\ errPipe # <<>>
    /\ stderrLines' = Append(stderrLines, DecodeReplace(Head(errPipe)))
    /\ errPipe' = Tail(errPipe)
    /\ UNCHANGED <<proc, exitCode, stdoutOpen, stderrOpen, outPipe, writes, errWritten>>
    /\ UNCHANGED <<stdinClosed, cpc, drain, probes, probesAlive, raised, errTail,
                   sent, recvVars, calls, idCounter, closeTrace, mainVars>>

\* reading the stream raises: `except: pass`, the thread returns
DrainReadError ==
    /\ drain = "running" /\ proc # "none"
    /\ drain' = "done"
    /\ UNCHANGED subjectVars
    /\ UNCHANGED <<stdinClosed, cpc, stderrLines, probes, probesAlive, raised, errTail,
                   sent, recvVars, calls, idCounter, closeTrace, mainVars>>

InitDrain == InitClient

NextDrain ==
    \/ Popen
    \/ StartDrain
    \/ Probe
    \/ BootRaise
    \/ \E utf8 \in BOOLEAN : SubjectWriteErrBytes(utf8)
    \/ \E code \in ExitCodes : SubjectExit(code)
    \/ DrainDecodedLine
    \/ DrainEof
    \/ DrainReadError

\* the thread is started and runs whenever it can take a step
SpecDrain ==
    InitDrain /\ [][NextDrain]_vars /\ WF_vars(DrainDecodedLine) /\ WF_vars(DrainEof)

\* C33: a step of the drain thread leaves the main thread where it is and
\* raises nothing in it, and once the subject's stderr is closed the thread
\* eventually returns.
C33_DrainEndsQuietly ==
    /\ [][(drain = "running" /\ (stderrLines' # stderrLines \/ drain' # drain)) =>
            (cpc' = cpc /\ raised' = raised /\ errTail' = errTail /\ excPending' = excPending)]_vars
    /\ (drain = "running" /\ ~stderrOpen) ~> (drain = "done")

C33_Witness ==
    /\ drain = "done" /\ ~stderrOpen /\ errPipe = <<>> /\ raised = ""
    /\ Len(stderrLines) = MaxDrainLines /\ stderrLines[1].replaced

\* C35: when main has ended, on whichever path, the temporary directory it
\* made is removed.
C35_TmpdirRemovedOnExit == mpc = "exited" => tmpdir = "removed"

\* ------------------------------------------------- send, byte by byte
\* McpClient.send with the bytes kept: the text of a message is a sequence of
\* characters, "LF" being the newline byte and "\\" the backslash.
MaxSends == 2          \* send invocations
MaxTextLen == 1        \* characters in a message's text
TextChars == {"a", "LF", "\\"}
Texts == UNION {[1..n -> TextChars] : n \in 0..MaxTextLen}
Objs == [id : {"none", "1"}, text : Texts]
NoObj == [id |-> "none", text |-> <<>>]

\* json.dumps of a string with the newline left as it is
EscapeKeepsNewline(c) ==
    IF c = "\\" THEN <<"\\", "\\">> ELSE <<c>>

\* json.dumps of a string: a newline becomes backslash n, a backslash two
Escape(c) ==
    IF c = "LF" THEN <<"\\", "n">>
    ELSE IF c = "\\" THEN <<"\\", "\\">>
    ELSE <<c>>

RECURSIVE EscapeAll(_)
EscapeAll(t) == IF t = <<>> THEN <<>> ELSE Escape(Head(t)) \o EscapeAll(Tail(t))

\* json.dumps(obj): one line, the id left out when there is none
Dumps(obj) ==
    <<"{">> \o (IF obj.id = "none" THEN <<>> ELSE <<obj.id>>)
            \o <<"\"">> \o EscapeAll(obj.text) \o <<"\"", "}">>

\* body = json.dumps(obj) + "\n"; self.proc.stdin.write(body.encode()): the
\* bytes go to the buffer of proc.stdin
SendWrite(obj) ==
    /\ cpc = "ready" /\ calls < MaxSends
    /\ calls' = calls + 1
    /\ stdinStream' = [stdinStream EXCEPT !.buffer = @ \o Dumps(obj) \o <<"LF">>,
                                          !.obj = obj]
    /\ raised' = ""
    /\ cpc' = "send_flush"
    /\ UNCHANGED subjectVars
    /\ UNCHANGED <<stdinClosed, drain, stderrLines, probes, probesAlive, errTail, sent,
                   recvVars, idCounter, closeTrace, mainLocals, stepVars, taskVars, genVars,
                   tester, validator, runner>>

\* self.proc.stdin.flush(): one write of the operating system takes k bytes
SendFlushPart ==
    /\ cpc = "send_flush" /\ proc = "alive"
    /\ \E k \in 1..Len(stdinStream.buffer) :
          stdinStream' = [stdinStream EXCEPT
                             !.pipe = @ \o SubSeq(stdinStream.buffer, 1, k),
                             !.buffer = SubSeq(@, k + 1, Len(@))]
    /\ UNCHANGED subjectVars
    /\ UNCHANGED <<stdinClosed, cpc, drain, stderrLines, probes, probesAlive, raised, errTail,
                   sent, recvVars, calls, idCounter, closeTrace, mainLocals, stepVars,
                   taskVars, genVars, tester, validator, runner>>

\* flush with the subject gone: BrokenPipeError leaves send
SendFlushBroken ==
    /\ cpc = "send_flush" /\ proc = "exited" /\ stdinStream.buffer # <<>>
    /\ raised' = "BrokenPipeError"
    /\ cpc' = "ready"
    /\ UNCHANGED subjectVars
    /\ UNCHANGED <<stdinClosed, drain, stderrLines, probes, probesAlive, errTail, sent,
                   recvVars, calls, idCounter, closeTrace, mainVars>>

\* the buffer is empty: flush and send return
SendReturn ==
    /\ cpc = "send_flush" /\ stdinStream.buffer = <<>>
    /\ sent' = Append(sent, stdinStream.obj)
    /\ cpc' = "ready"
    /\ UNCHANGED subjectVars
    /\ UNCHANGED <<stdinClosed, drain, stderrLines, probes, probesAlive, raised, errTail,
                   recvVars, calls, idCounter, closeTrace, mainVars>>

InitSend ==
    /\ InitTransport /\ mpc = "idle" /\ InitMainLocals
    /\ envelope = NoEnvelope /\ toolOut = NoOut /\ verdict = NoVerdict
    /\ NoTasks /\ NotGenerating
    /\ stdinStream = [buffer |-> <<>>, pipe |-> <<>>, obj |-> NoObj]
    /\ tester = <<>> /\ validator = <<>> /\ runner = <<>>

NextSend ==
    \/ Popen
    \/ StartDrain
    \/ Probe
    \/ BootRaise
    \/ \E code \in ExitCodes : SubjectExit(code)
    \/ \E obj \in Objs : SendWrite(obj)
    \/ SendFlushPart
    \/ SendFlushBroken
    \/ SendReturn

SpecSend == InitSend /\ [][NextSend]_vars

\* the lines of b, each without its newline; what follows the last newline
RECURSIVE LinesOf(_, _)
LinesOf(b, line) ==
    IF b = <<>> THEN [whole |-> <<>>, rest |-> line]
    ELSE IF Head(b) = "LF"
    THEN LET r == LinesOf(Tail(b), <<>>) IN [whole |-> <<line>> \o r.whole, rest |-> r.rest]
    ELSE LinesOf(Tail(b), Append(line, Head(b)))

\* the text a JSON string reads as
RECURSIVE Unescape(_)
Unescape(t) ==
    IF t = <<>> THEN <<>>
    ELSE IF Head(t) = "\\" /\ Len(t) >= 2
    THEN <<IF t[2] = "n" THEN "LF" ELSE t[2]>> \o Unescape(SubSeq(t, 3, Len(t)))
    ELSE <<Head(t)>> \o Unescape(Tail(t))

\* line is a JSON document that reads as obj
ReadsAs(line, obj) ==
    LET k == IF obj.id = "none" THEN 0 ELSE 1
    IN  /\ Len(line) >= k + 4
        /\ line[1] = "{" /\ line[Len(line)] = "}"
        /\ k = 1 => line[2] = obj.id
        /\ line[k + 2] = "\"" /\ line[Len(line) - 1] = "\""
        /\ Unescape(SubSeq(line, k + 3, Len(line) - 2)) = obj.text

\* C34: when send has returned, its frame is wholly on the subject's stdin
\* and nothing is left in the buffer: the bytes on stdin are one line per send
\* that returned, in the order of the calls, each a JSON document that reads as
\* the object sent, each followed by one newline.
C34_SendWritesOneFrame ==
    (cpc = "ready" /\ calls > 0 /\ raised = "") =>
        LET got == LinesOf(stdinStream.pipe, <<>>)
        IN  /\ stdinStream.buffer = <<>>
            /\ got.rest = <<>>
            /\ Len(got.whole) = Len(sent)
            /\ \A i \in 1..Len(sent) : ReadsAs(got.whole[i], sent[i])

C34_Witness ==
    /\ cpc = "ready" /\ raised = "" /\ Len(sent) = 2
    /\ sent[1].text = <<"LF">> /\ sent[2] = [id |-> "1", text |-> <<"\\">>]
    /\ stdinStream.buffer = <<>>

\* --------------------------------------------- IntelligentRoutingTester
\* scripts/intelligent_routing_e2e_tests.py.  stderr is kept character by
\* character, since the routing test looks for a word in it; stdout is kept by
\* what the tests look for in it.
MaxTests == 3          \* test cases run
TimedOutMsg == <<"C", "o", "m", "m", "a", "n", "d", " ", "t", "i", "m", "e", "d", " ", "o", "u", "t">>
StderrTexts == {<<>>, <<"e", "r", "r">>, <<"T", "i", "m", "e", "o", "u", "t", "!">>}
Routes == {"js_workflow", "direct_mcp"}
\* what the command does: it runs longer than the timeout, or it ends
Commands == [timedOut : BOOLEAN, returncode : {0, 1, -1},
             stdout : {"js", "direct", "none"},   \* words of a route in stdout
             word : BOOLEAN,                      \* the word the test looks for in stdout
             stderr : StderrTexts]

\* run_command: (returncode, stdout, stderr), or (-1, "", "Command timed out")
\* on subprocess.TimeoutExpired
run_command(c) ==
    IF c.timedOut
    THEN [code |-> -1, stdout |-> "none", word |-> FALSE, stderr |-> TimedOutMsg]
    ELSE [code |-> c.returncode, stdout |-> c.stdout, word |-> c.word, stderr |-> c.stderr]

\* str.lower()
Lower(t) == [i \in 1..Len(t) |-> CASE t[i] = "C" -> "c" [] t[i] = "T" -> "t" [] OTHER -> t[i]]
\* sub in t
Contains(sub, t) ==
    \E i \in 0..(Len(t) - Len(sub)) : SubSeq(t, i + 1, i + Len(sub)) = sub

\* log_test, log_success, log_error on the counters
log_test(t) == [t EXCEPT !.total_tests = @ + 1, !.passes = 0, !.fails = 0]
log_success(t) == [t EXCEPT !.passed_tests = @ + 1, !.passes = @ + 1]
log_error(t) == [t EXCEPT !.failed_tests = @ + 1, !.fails = @ + 1]

\* route_type as read from stdout
RouteType(out) ==
    IF out.stdout = "js" THEN "js_workflow"
    ELSE IF out.stdout = "direct" THEN "direct_mcp"
    ELSE "None"

\* `if code == 0 or (code == -1 and "timeout" not in stderr.lower())`
RoutingSucceeded(out) ==
    out.code = 0 \/ (out.code = -1 /\ ~Contains(<<"t", "i", "m", "e", "o", "u", "t">>, Lower(out.stderr)))

\* test_intelligent_routing_with_request: the tester after the call, with the
\* result it returned
RoutingRequest(t, c) ==
    LET out == run_command(c)
        ok == RoutingSucceeded(out)
        t1 == log_test(t)
        t2 == IF ok THEN log_success(t1) ELSE log_error(t1)
    IN  [t2 EXCEPT !.returned = [timedOut |-> c.timedOut,
                                 status |-> IF ok THEN "PASSED" ELSE "FAILED",
                                 route_type |-> RouteType(out)]]

NoResult == [timedOut |-> FALSE, status |-> "none", route_type |-> "None"]

\* a call of test_intelligent_routing_with_request
TestRouting(c) ==
    /\ tester.cases < MaxTests
    /\ tester' = [RoutingRequest(tester, c) EXCEPT !.cases = @ + 1, !.status = "none"]
    /\ UNCHANGED <<transportVars, mainLocals, stepVars, taskVars, genVars, stdinStream,
                   validator, runner>>

\* one turn of the loop of test_routing_decision_accuracy
TestAccuracy(c, expected_route) ==
    /\ tester.cases < MaxTests
    /\ LET t == RoutingRequest(tester, c)
           right == t.returned.route_type = expected_route
           t2 == IF right THEN log_success(t) ELSE log_error(t)
       IN  tester' = [t2 EXCEPT !.cases = @ + 1,
                                !.status = IF right THEN "PASSED" ELSE "FAILED"]
    /\ UNCHANGED <<transportVars, mainLocals, stepVars, taskVars, genVars, stdinStream,
                   validator, runner>>

\* one request of test_ollama_integration (word: "ollama" in stdout.lower())
\* or of test_real_codex_integration (word: "Task launched successfully")
TestModel(c, codex) ==
    /\ tester.cases < MaxTests
    /\ LET out == run_command(c)
           ok == IF codex THEN out.code = 0 /\ out.word ELSE out.code = 0 \/ out.word
           t == IF ok THEN log_success(tester) ELSE log_error(tester)
       IN  tester' = [t EXCEPT !.cases = @ + 1, !.returned = NoResult,
                               !.status = IF ok THEN "PASSED" ELSE "FAILED"]
    /\ UNCHANGED <<transportVars, mainLocals, stepVars, taskVars, genVars, stdinStream,
                   validator, runner>>

InitRouting ==
    /\ InitTransport /\ mpc = "idle" /\ InitMainLocals
    /\ envelope = NoEnvelope /\ toolOut = NoOut /\ verdict = NoVerdict
    /\ NoTasks /\ NotGenerating
    /\ stdinStream = <<>> /\ validator = <<>> /\ runner = <<>>
    /\ tester = [total_tests |-> 0, passed_tests |-> 0, failed_tests |-> 0,
                 passes |-> 0, fails |-> 0, cases |-> 0, status |-> "none",
                 returned |-> NoResult]

NextRouting ==
    \E c \in Commands :
        \/ TestRouting(c)
        \/ \E expected_route \in Routes : TestAccuracy(c, expected_route)
        \/ \E codex \in BOOLEAN : TestModel(c, codex)

SpecRouting == InitRouting /\ [][NextRouting]_vars

\* C36: passed_tests + failed_tests never exceeds total_tests, and the test
\* started by the last log_test is counted at most once, as passed or as
\* failed (passes and fails count the log_success and log_error calls since
\* that log_test).
C36_CountedAtMostOnce ==
    /\ tester.passed_tests + tester.failed_tests <= tester.total_tests
    /\ tester.passes + tester.fails <= 1

\* C37: the result test_intelligent_routing_with_request returns for a command
\* that timed out has status FAILED, and the call counted a failure and no pass.
C37_TimeoutIsFailure ==
    (tester.returned.timedOut /\ tester.status = "none") =>
        (tester.returned.status = "FAILED" /\ tester.fails = 1 /\ tester.passes = 0)

\* ------------------------------------------------------- TestValidator
\* scripts/validate_tests.py.  validator.ran keeps what each test command
\* did, validator.results what _run_command returned for it.
TestNames == <<"unit_tests", "integration_tests", "cli_tests">>
\* what a test command does: cargo is missing (subprocess.run raises), the
\* command runs longer than 300 s, or it exits with a code
CommandRuns == {"missing", "timeout", "exit0", "exit1", "exit101"}
\* the attributes of module os the script uses; os has no attribute `time`
\* (the script never imports time)
OsHasTime == FALSE

\* _run_command: the TestResult (status and error) for a command
validator_run_command(c) ==
    IF ~OsHasTime THEN [status |-> "FAILED", error |-> "AttributeError"]   \* except Exception
    ELSE IF c = "timeout" THEN [status |-> "FAILED", error |-> "Test timeout"]
    ELSE IF c = "missing" THEN [status |-> "FAILED", error |-> "FileNotFoundError"]
    ELSE IF c = "exit0" THEN [status |-> "PASSED", error |-> "None"]
    ELSE [status |-> "FAILED", error |-> "stderr"]

\* _run_unit_tests, _run_integration_tests, _run_cli_tests, in this order
RunTests(c) ==
    /\ validator.pc = "tests"
    /\ LET n == Len(validator.results) + 1
           res == validator_run_command(c)
       IN  validator' = [validator EXCEPT
               !.ran = Append(@, c),
               !.results = Append(@, [name |-> TestNames[n], status |-> res.status,
                                      error |-> res.error]),
               !.pc = IF n = Len(TestNames) THEN "checks" ELSE "tests"]
    /\ UNCHANGED <<transportVars, mainLocals, stepVars, taskVars, genVars, stdinStream,
                   tester, runner>>

\* _validate_test_coverage, _check_test_quality, _validate_mock_coverage: they
\* print, and add no result
ValidateChecks ==
    /\ validator.pc = "checks"
    /\ validator' = [validator EXCEPT !.pc = "report"]
    /\ UNCHANGED <<transportVars, mainLocals, stepVars, taskVars, genVars, stdinStream,
                   tester, runner>>

CountStatus(results, st) == Cardinality({i \in 1..Len(results) : results[i].status = st})

\* _generate_report
GenerateReport ==
    /\ validator.pc = "report"
    /\ validator' = [validator EXCEPT
           !.report = [total_tests |-> Len(validator.results),
                       passed_tests |-> CountStatus(validator.results, "PASSED"),
                       failed_tests |-> CountStatus(validator.results, "FAILED")],
           !.pc = "exit"]
    /\ UNCHANGED <<transportVars, mainLocals, stepVars, taskVars, genVars, stdinStream,
                   tester, runner>>

\* main: sys.exit(0 if report.failed_tests == 0 else 1)
ValidatorExit ==
    /\ validator.pc = "exit"
    /\ validator' = [validator EXCEPT
           !.exit = IF validator.report.failed_tests = 0 THEN 0 ELSE 1,
           !.pc = "exited"]
    /\ UNCHANGED <<transportVars, mainLocals, stepVars, taskVars, genVars, stdinStream,
                   tester, runner>>

NoReport == [total_tests |-> 0, passed_tests |-> 0, failed_tests |-> 0]

InitValidator ==
    /\ InitTransport /\ mpc = "idle" /\ InitMainLocals
    /\ envelope = NoEnvelope /\ toolOut = NoOut /\ verdict = NoVerdict
    /\ NoTasks /\ NotGenerating
    /\ stdinStream = <<>> /\ tester = <<>> /\ runner = <<>>
    /\ validator = [pc |-> "tests", ran |-> <<>>, results |-> <<>>, report |-> NoReport,
                    exit |-> -1]

NextValidator ==
    \/ \E c \in CommandRuns : RunTests(c)
    \/ ValidateChecks
    \/ GenerateReport
    \/ ValidatorExit

SpecValidator == InitValidator /\ [][NextValidator]_vars

\* C38: each result is PASSED when its command exited with code 0 and FAILED
\* otherwise; the report has failed_tests = 0, and the script exits 0, exactly
\* when all three commands exited with code 0.
C38_PassedIffExitZero ==
    /\ \A i \in 1..Len(validator.results) :
           validator.results[i].status = (IF validator.ran[i] = "exit0" THEN "PASSED" ELSE "FAILED")
    /\ validator.pc = "exited" =>
           LET allZero == \A i \in 1..Len(validator.ran) : validator.ran[i] = "exit0"
           IN  /\ validator.report.failed_tests = 0 <=> allZero
               /\ validator.exit = 0 <=> allZero

\* ------------------------------------------------------- E2ETestRunner
\* scripts/e2e_functional_tests.py, the MCP config file ~/.aiw/mcp.json and
\* its copy ~/.aiw/mcp.json.backup.  A file is "absent" or has a content.
Contents == {"old", "new", "other"}
Files == Contents \cup {"absent"}
\* the suites run_all_tests runs, in order
Suites == <<"test_cli_basic_functionality", "test_mcp_configuration", "test_mcp_server_startup",
            "test_process_tracking", "test_error_handling">>

\* backup_config
BackupConfig ==
    /\ runner.pc = "backup"
    /\ runner' = IF runner.config # "absent"
                 THEN [runner EXCEPT !.config_backup = "mcp.json.backup",
                                     !.backupFile = runner.config,      \* shutil.copy2
                                     !.pc = "init_report"]
                 ELSE [runner EXCEPT !.pc = "init_report"]
    /\ UNCHANGED <<transportVars, mainLocals, stepVars, taskVars, genVars, stdinStream,
                   tester, validator>>

\* init_report and the cargo build, before the try: they leave the config
\* alone; an exception here (the report cannot be written) leaves run_all_tests
InitReport(raises) ==
    /\ runner.pc = "init_report"
    /\ runner' = IF raises THEN [runner EXCEPT !.pc = "exited", !.raised = TRUE]
                 ELSE [runner EXCEPT !.pc = "suites"]
    /\ UNCHANGED <<transportVars, mainLocals, stepVars, taskVars, genVars, stdinStream,
                   tester, validator>>

\* one suite inside the try.  test_mcp_configuration unlinks the config first;
\* the commands of any suite (aiw mcp add and the like) may leave the config
\* with a content (leaves), and the suite may raise.
RunSuite(leaves, raises) ==
    /\ runner.pc = "suites"
    /\ LET name == Suites[runner.suite]
           cleared == IF name = "test_mcp_configuration" THEN "absent" ELSE runner.config
           after == IF leaves = "keep" THEN cleared ELSE leaves
       IN  runner' = [runner EXCEPT
               !.config = after,
               !.touched = @ \/ after # runner.before,
               !.raised = raises,
               !.suite = IF raises \/ runner.suite = Len(Suites) THEN @ ELSE @ + 1,
               !.pc = IF raises \/ runner.suite = Len(Suites) THEN "finally" ELSE "suites"]
    /\ UNCHANGED <<transportVars, mainLocals, stepVars, taskVars, genVars, stdinStream,
                   tester, validator>>

\* restore_config without its elif branch
RestoreConfigKeepsNewFile ==
    /\ runner.pc = "finally"
    /\ runner' = [runner EXCEPT
           !.config = IF runner.config_backup # "None" /\ runner.backupFile # "absent"
                      THEN runner.backupFile
                      ELSE @,
           !.pc = IF runner.raised THEN "exited" ELSE "finalize"]
    /\ UNCHANGED <<transportVars, mainLocals, stepVars, taskVars, genVars, stdinStream,
                   tester, validator>>

\* the finally of run_all_tests: restore_config; an exception of a suite
\* then leaves run_all_tests
RestoreConfig ==
    /\ runner.pc = "finally"
    /\ runner' = [runner EXCEPT
           !.config = IF runner.config_backup # "None" /\ runner.backupFile # "absent"
                      THEN runner.backupFile                            \* shutil.copy2
                      ELSE "absent",                                    \* unlink, if it exists
           !.pc = IF runner.raised THEN "exited" ELSE "finalize"]
    /\ UNCHANGED <<transportVars, mainLocals, stepVars, taskVars, genVars, stdinStream,
                   tester, validator>>

\* finalize_report and the return
FinalizeReport ==
    /\ runner.pc = "finalize"
    /\ runner' = [runner EXCEPT !.pc = "exited"]
    /\ UNCHANGED <<transportVars, mainLocals, stepVars, taskVars, genVars, stdinStream,
                   tester, validator>>

\* E2ETestRunner.__init__; the config file may or may not exist, and a backup
\* file of an earlier run may lie beside it
InitRunner ==
    /\ InitTransport /\ mpc = "idle" /\ InitMainLocals
    /\ envelope = NoEnvelope /\ toolOut = NoOut /\ verdict = NoVerdict
    /\ NoTasks /\ NotGenerating
    /\ stdinStream = <<>> /\ tester = <<>> /\ validator = <<>>
    /\ \E c \in {"absent", "old"}, b \in {"absent", "old", "other"} :
           runner = [pc |-> "backup", config |-> c, backupFile |-> b, config_backup |-> "None",
                     before |-> c, suite |-> 1, raised |-> FALSE, touched |-> FALSE]

NextRunner ==
    \/ BackupConfig
    \/ \E raises \in BOOLEAN : InitReport(raises)
    \/ \E leaves \in Files \cup {"keep"}, raises \in BOOLEAN : RunSuite(leaves, raises)
    \/ RestoreConfig
    \/ FinalizeReport

SpecRunner == InitRunner /\ [][NextRunner]_vars

\* C39: when run_all_tests is left, by return or by an exception, the MCP
\* config file is as it was found: absent if it was absent, and with its old
\* content if it existed.
C39_ConfigAsFound ==
    runner.pc \in {"finalize", "exited"} => runner.config = runner.before

\* a suite changed the config and then one raised, the file having existed
C39_Witness ==
    /\ runner.pc = "exited" /\ runner.raised /\ runner.touched
    /\ runner.before = "old" /\ runner.suite > 2

====
